---- MODULE Spec2Model ----
(***************************************************************************)
(* bits_client: a model of the overlapped named-pipe transport             *)
(* (named_pipe/src/lib.rs, named_pipe/src/overlapped.rs) and of the        *)
(* reference-counted notification adapter (bits/src/callback.rs).          *)
(*                                                                         *)
(* Spec         one duplex message-mode pipe instance, one PipeServer and  *)
(*              one PipeClient at a time, the operating system's pending   *)
(*              overlapped operations and the two message queues.          *)
(* SpecAdapter  one BackgroundCopyCallback, its Mutex<ULONG> count, the    *)
(*              registrant and the service threads holding references.     *)
(***************************************************************************)
EXTENDS Integers, Sequences, FiniteSets, TLC

\* ------------------------------------------------------------------ bounds
\* number of write calls the two sides issue in one behaviour
MaxWrites == 2
\* number of messages the pipe buffers towards the server before a write pends
InCap == 2
\* number of messages the pipe buffers towards the client before a write pends
OutCap == 1
\* largest read buffer a caller passes
MaxCap == 2
\* number of references ever acquired on one adapter
MaxAcq == 4
\* number of adapters registered on one job in one behaviour
MaxAdapters == 3
\* number of jobs the transfer service can hold
MaxJobs == 2
\* number of requests the control side writes on one connection
MaxCmds == 2
\* how far the clock of the status monitor runs
MaxTime == 5
\* number of get_status calls on one monitor
MaxCalls == 2
\* number of monitors one InProcessClient builds
MaxMonitors == 3

\* ------------------------------------------------------------------ state
VARIABLES
  ovl,        \* ovl[e]: the endpoint's operation slot, "Some" or "None"
  pc,         \* pc[e]: where the endpoint's current call stands
  call,       \* call[e]: the call in progress (kind, buffer, timeout)
  issue,      \* issue[e]: what the OS call returned and how it was classified
  fin,        \* fin[e]: the value OverlappedResult::finish produced
  os_pending, \* os_pending[e]: overlapped operations the OS has in flight
  done,       \* done[e]: completion recorded in the OVERLAPPED (event signalled)
  buf,        \* buf[e]: the caller's read buffer
  ret,        \* ret[e]: what the endpoint's last call returned
  inst,       \* state of the server's pipe instance in the OS
  cli,        \* state of the client's handle in the OS
  q,          \* q[e]: messages waiting to be read by endpoint e
  nsent,      \* messages the client has handed to the OS so far
  nwrites,    \* write calls issued so far, by either side
  rcvd,       \* history: what the server's successful reads returned
  lossy,      \* history: some written data was discarded or cut
  expConn,    \* history: connected state implied by the server's call results
  hadTimeout, \* history: a server connect has timed out
  rc,         \* adapter: the Mutex<ULONG> reference count
  mem,        \* adapter: "none" (not built), "alive" or "freed"
  held,       \* adapter: held[h], references holder h owns
  tpc,        \* adapter: tpc[h], where holder h stands inside release/register
  cbs,        \* adapter: cbs[k], the handler installed for event kind k
  hr,         \* adapter: status the last stub call returned to the service
  acq,        \* adapter history: references acquired (construction included)
  rel,        \* adapter history: Release calls that decremented the count
  destroys,   \* adapter history: times the adapter was re-boxed and dropped
  uaf,        \* adapter history: the adapter was touched after it was freed
  ev,         \* adapter history: the event kind whose stub produced hr
  mtx,        \* adapter threads: the holder owning the count's mutex, or "free"
  tmp,        \* adapter threads: tmp[h], the count holder h read under the lock
  jrc,        \* job: jrc[a], the count of adapter a
  jmem,       \* job: jmem[a], "none", "alive" or "freed"
  notify,     \* job: the adapters the service has registered on the job
  replaced,   \* job: replaced adapters the service has yet to release
  regpc,      \* job: where the registrant stands inside register
  rega,       \* job: the adapter the registrant is registering (0: none)
  svc,        \* job: the adapter a service thread is delivering an event to
  wasReg,     \* job history: adapters whose registration succeeded
  invd,       \* job history: adapters whose handlers were invoked
  late,       \* job history: an adapter was used after it was dropped
  mon,        \* monitor: the InProcessMonitor, "none", "alive" or "dropped"
  strong,     \* monitor: strong count of the Arc<ControlPair>
  vmem,       \* monitor: the ControlPair, "none", "alive" or "freed"
  notified,   \* monitor: InProcessMonitorVars.notified
  shutdown,   \* monitor: InProcessMonitorVars.shutdown
  mlk,        \* monitor: the thread owning the Mutex of the vars, or "free"
  waiting,    \* monitor: get_status is blocked in Condvar::wait_timeout
  hpc,        \* monitor: hpc[t], where handler thread t stands
  hret,       \* monitor: hret[t], what the handler on thread t last did
  cpc,        \* monitor: where the client stands in stop_update
  gpc,        \* monitor: where get_status stands once it has left its loop
  badTouch,   \* monitor history: the ControlPair was used after it was freed
  cx,         \* codec: a value, its serialized frame and what decoding gave
  cver,       \* protocol: PROTOCOL_VERSION the control side was built with
  wver,       \* protocol: PROTOCOL_VERSION the worker was built with
  ctlpc,      \* protocol: where the control side stands
  wrkpc,      \* protocol: where the worker stands
  c2w,        \* protocol: frames written by the control side, not yet read
  w2c,        \* protocol: frames written by the worker, not yet read
  ccmd,       \* protocol: the command run_command is running
  cres,       \* protocol: what the last run_command returned
  wcmd,       \* protocol: the command the worker decoded
  wres,       \* protocol: the result the worker is about to write
  jobs,       \* protocol: jobs[g], the service's job g: its owner or none
  nreq,       \* protocol history: requests written
  nread,      \* protocol history: requests the worker read
  nresp,      \* protocol history: responses written
  hsFail,     \* protocol history: a handshake check failed
  wlast,      \* protocol history: the last dispatch, what it found and did
  ilast,      \* protocol history: the last in-process call, likewise
  clock,      \* status: the time now
  bmon,       \* status: the monitor: none, alive, dropped, or pipe (pipe-based)
  imv,        \* status: InProcessMonitorVars behind the mutex
  last_status_time, \* status: InProcessMonitor::last_status_time
  last_url,   \* status: InProcessMonitor::last_url
  gcall,      \* status: the get_status call under way
  gout,       \* status: what the last get_status returned, and how
  bjob,       \* status: the job's remote name and priority
  reportedUrl, \* status history: url of the last snapshot that carried one
  hist,       \* status history: calls, outcomes, what has happened so far
  mslot,      \* status: the monitor pipe's Overlapped slot
  pout,       \* status: what the last pipe-based get_status returned
  wmon,       \* status: the worker's monitor thread and what it sent last
  monitors,   \* registry: InProcessClient::monitors, job id to monitor (0: no entry)
  imon,       \* registry: the monitors built so far, their job and flags
  sjobs,      \* registry: the jobs of the service, "mine", "other" or "gone"
  rlast,      \* registry history: the client's last call and what it found
  tctl,       \* task: where the control side stands in start or monitor
  mround,     \* task: the number of the call under way, or of the last one
  tcmd,       \* task: the command of that call, start or monitor
  mreq,       \* task: the request on the control pipe, not yet read
  mreply,     \* task: the reply on the control pipe, not yet read
  mwrk,       \* task: where the worker's command loop stands
  mres,       \* task: the reply the worker is about to write
  mpipe,      \* task: mpipe[r], the monitor pipe of call r
  mthr,       \* task: mthr[r], the monitor thread spawned for call r
  mret,       \* task: mret[r], what call r returned to its caller
  mgot        \* task history: mgot[r], the reply call r received

pipeVars == <<ovl, pc, call, issue, fin, os_pending, done, buf, ret, inst, cli,
              q, nsent, nwrites, rcvd, lossy, expConn, hadTimeout>>
adapterVars == <<rc, mem, held, tpc, cbs, hr, acq, rel, destroys, uaf, ev>>
threadVars == <<mtx, tmp>>
jobVars == <<jrc, jmem, notify, replaced, regpc, rega, svc, wasReg, invd, late>>
monVars == <<mon, strong, vmem, notified, shutdown, mlk, waiting, hpc, hret, cpc,
             gpc, badTouch>>
codecVars == <<cx>>
protoVars == <<cver, wver, ctlpc, wrkpc, c2w, w2c, ccmd, cres, wcmd, wres, jobs, nreq,
               nread, nresp, hsFail, wlast, ilast>>
statusVars == <<clock, bmon, imv, last_status_time, last_url, gcall, gout, bjob,
                reportedUrl, hist, mslot, pout, wmon>>
regVars == <<monitors, imon, sjobs, rlast>>
taskVars == <<tctl, mround, tcmd, mreq, mreply, mwrk, mres, mpipe, mthr, mret,
              mgot>>
vars == <<pipeVars, adapterVars, threadVars, jobVars, monVars, codecVars,
          protoVars, statusVars, regVars, taskVars>>

\* ------------------------------------------------------------- pipe: data
Endpoints == {"server", "client"}
Other(e) == IF e = "server" THEN "client" ELSE "server"

\* the byte a caller fills its read buffer with before the call
FillByte == 255
FillBuf(cap) == [i \in 1..cap |-> FillByte]

\* the n-th message the client writes
Payload(n) == IF n % 2 = 0 THEN <<n, n>> ELSE <<n>>
\* the message the server writes
ServerMsg == <<9, 9>>

Caps == 1..MaxCap
Timeouts == {"finite", "infinite"}

NoCall == [kind |-> "none"]
NoIssue == [t |-> "none"]
NoFin == [tag |-> "none"]
NoDone == [set |-> FALSE]
NoRet == [call |-> "none", val |-> "none", code |-> "none", n |-> 0, m |-> 0]

\* last-error values left over from earlier calls when the OS call succeeds
StaleCodes == {"ERROR_SUCCESS", "ERROR_IO_PENDING"}

\* ---------------------------------------------------- pipe: OS operations
\* the handle of endpoint e is attached to nothing
Severed(e) == IF e = "server" THEN inst \in {"listening", "disconnected"}
              ELSE cli # "open"
\* the peer of endpoint e closed its handle
PeerGone(e) == e = "server" /\ inst = "closing"

\* PIPE_TYPE_MESSAGE | PIPE_READMODE_MESSAGE: a read takes the oldest message,
\* whole if it fits, else the first cap bytes with ERROR_MORE_DATA
PipeModeTake(queue, cap) ==
  LET m == Head(queue) IN
  IF Len(m) <= cap
  THEN [result |-> 1, err |-> "ERROR_SUCCESS", bytes |-> Len(m),
        data |-> m, rest |-> Tail(queue), loss |-> "no"]
  ELSE [result |-> 0, err |-> "ERROR_MORE_DATA", bytes |-> cap,
        data |-> SubSeq(m, 1, cap),
        rest |-> <<SubSeq(m, cap + 1, Len(m))>> \o Tail(queue),
        loss |-> "cut"]

Failure(code, queue) ==
  [result |-> 0, err |-> code, bytes |-> 0, data |-> <<>>, rest |-> queue,
   loss |-> "no"]

\* ways ReadFile on endpoint e can complete now (empty: it has to wait)
ReadOutcomes(e, cap) ==
  IF Severed(e) THEN {Failure("ERROR_PIPE_NOT_CONNECTED", q[e])}
  ELSE IF q[e] # <<>> THEN {PipeModeTake(q[e], cap)}
  ELSE IF PeerGone(e) THEN {Failure("ERROR_BROKEN_PIPE", q[e])}
  ELSE {}

QueueCap(e) == IF e = "server" THEN InCap ELSE OutCap

\* ways WriteFile on endpoint e can complete now: the message is queued
\* whole, or the OS accepts only a part of it
WriteOutcomes(e, data) ==
  LET p == Other(e)
      Accept(n) == [result |-> 1, err |-> "ERROR_SUCCESS", bytes |-> n,
                    data |-> <<>>, rest |-> Append(q[p], SubSeq(data, 1, n)),
                    loss |-> IF n < Len(data) THEN "cut" ELSE "no"]
  IN IF Severed(e) THEN {Failure("ERROR_PIPE_NOT_CONNECTED", q[p])}
     ELSE IF PeerGone(e) THEN {Failure("ERROR_NO_DATA", q[p])}
     ELSE IF Len(q[p]) < QueueCap(p)
          THEN {Accept(n) : n \in {Len(data)} \cup (1..(Len(data) - 1))}
     ELSE {}

\* a pending ConnectNamedPipe completes once a client has attached
ConnectOutcomes(e) ==
  IF inst \in {"connected", "closing"}
  THEN {[result |-> 1, err |-> "ERROR_SUCCESS", bytes |-> 0, data |-> <<>>,
         rest |-> q[e], loss |-> "no"]}
  ELSE {}

Outcomes(e, c) ==
  CASE c.kind = "read" -> ReadOutcomes(e, c.cap)
    [] c.kind = "write" -> WriteOutcomes(e, c.data)
    [] c.kind = "connect" -> ConnectOutcomes(e)

\* the queue an operation of this kind on endpoint e consumes or fills
QueueOf(e, kind) == IF kind = "write" THEN Other(e) ELSE e

\* bytes the OS stores at the start of the caller's buffer
BufWrite(b, data) ==
  [i \in 1..Len(b) |-> IF i <= Len(data) THEN data[i] ELSE b[i]]

Worse(a, b) ==
  IF "cut" \in {a, b} THEN "cut" ELSE IF "dropped" \in {a, b} THEN "dropped" ELSE "no"

\* ------------------------------------------- pipe: overlapped.rs, the code
\* OverlappedFinished::new: a zero result carries the last error, which must
\* be neither "pending" nor "incomplete" (assert_ne!, a panic otherwise)
OverlappedFinished_new(result, last_error, bytes_transferred) ==
  IF result = 0
  THEN IF last_error \in {"ERROR_IO_PENDING", "ERROR_IO_INCOMPLETE"}
       THEN [t |-> "panic"]
       ELSE [t |-> "Finished", ok |-> FALSE, code |-> last_error, bytes |-> -1]
  ELSE [t |-> "Finished", ok |-> TRUE, code |-> "none", bytes |-> bytes_transferred]

\* Overlapped::connect_named_pipe without the ERROR_PIPE_CONNECTED case
connect_named_pipe_Strict(result, last_error) ==
  IF result = 0 /\ last_error = "ERROR_IO_PENDING"
  THEN [t |-> "Pending"]
  ELSE OverlappedFinished_new(result, last_error, 0)

\* Overlapped::connect_named_pipe, after ConnectNamedPipe and GetLastError
connect_named_pipe(result, last_error) ==
  IF result = 0 /\ last_error = "ERROR_IO_PENDING"
  THEN [t |-> "Pending"]
  ELSE OverlappedFinished_new(
         IF last_error = "ERROR_PIPE_CONNECTED" THEN 1 ELSE result, last_error, 0)

\* Overlapped::write_file, after WriteFile and GetLastError
write_file(result, last_error, bytes_transferred) ==
  IF result = 0 /\ last_error = "ERROR_IO_PENDING"
  THEN [t |-> "Pending"]
  ELSE OverlappedFinished_new(result, last_error, bytes_transferred)

\* Overlapped::read_file, after ReadFile and GetLastError
read_file(result, last_error, bytes_transferred) ==
  IF result = 0 /\ last_error = "ERROR_IO_PENDING"
  THEN [t |-> "Pending"]
  ELSE OverlappedFinished_new(result, last_error, bytes_transferred)

IssueOp(kind, result, last_error, bytes_transferred) ==
  CASE kind = "connect" -> connect_named_pipe(result, last_error)
    [] kind = "write" -> write_file(result, last_error, bytes_transferred)
    [] kind = "read" -> read_file(result, last_error, bytes_transferred)

\* OverlappedPending::get_result, after GetOverlappedResult(bWait = FALSE)
get_result(result, last_error, bytes_transferred) ==
  IF result = 0 /\ last_error = "ERROR_IO_INCOMPLETE"
  THEN [t |-> "Pending"]
  ELSE OverlappedFinished_new(result, last_error, bytes_transferred)

\* OverlappedResult::finish on an operation that finished at once
finish_Finished(f) == [tag |-> "Some", ok |-> f.ok, code |-> f.code, bytes |-> f.bytes]

\* OverlappedResult::finish on a pending operation whose wait was signalled:
\* get_result, then `result?`
finish_Signalled(d) ==
  LET g == get_result(d.result, d.last_error, d.bytes) IN
  IF g.t # "Finished" THEN [tag |-> "panic"]
  ELSE IF g.ok THEN [tag |-> "Some", ok |-> TRUE, code |-> "none", bytes |-> g.bytes]
  ELSE [tag |-> "Err", code |-> g.code]

\* impl Drop for OverlappedPending without the cancellation
drop_NoCancel(pending) == pending

\* impl Drop for OverlappedPending: CancelIoEx, and when it succeeds
\* GetOverlappedResult(bWait = TRUE); no operation of this OVERLAPPED is left
OverlappedPending_drop(pending) == <<>>

\* ------------------------------------------------- pipe: lib.rs, the code
Ret(c, v, code, n, m) == [call |-> c, val |-> v, code |-> code, n |-> n, m |-> m]

\* connect_pipe_impl reporting an expired wait as an API error
connect_pipe_impl_NoTimeout(f) ==
  CASE f.tag = "Err" -> Ret("connect", "Api", f.code, 0, 0)
    [] f.tag = "None" -> Ret("connect", "Api", "WAIT_TIMEOUT", 0, 0)
    [] f.tag = "Some" -> IF f.ok THEN Ret("connect", "Ok", "none", 0, 0)
                         ELSE Ret("connect", "Api", f.code, 0, 0)

\* connect_pipe_impl
connect_pipe_impl(f) ==
  CASE f.tag = "Err" -> Ret("connect", "Api", f.code, 0, 0)
    [] f.tag = "None" -> Ret("connect", "Timeout", "none", 0, 0)
    [] f.tag = "Some" -> IF f.ok THEN Ret("connect", "Ok", "none", 0, 0)
                         ELSE Ret("connect", "Api", f.code, 0, 0)

\* write_pipe_impl reporting a short write as success
write_pipe_impl_NoCount(f, len) ==
  CASE f.tag = "Err" -> Ret("write", "Api", f.code, 0, 0)
    [] f.tag = "None" -> Ret("write", "Timeout", "none", 0, 0)
    [] f.tag = "Some" -> IF f.ok THEN Ret("write", "Ok", "none", len, 0)
                         ELSE Ret("write", "Api", f.code, 0, 0)

\* write_pipe_impl
write_pipe_impl(f, len) ==
  CASE f.tag = "Err" -> Ret("write", "Api", f.code, 0, 0)
    [] f.tag = "None" -> Ret("write", "Timeout", "none", 0, 0)
    [] f.tag = "Some" ->
         IF f.ok
         THEN IF f.bytes # len THEN Ret("write", "WriteCount", "none", len, f.bytes)
              ELSE Ret("write", "Ok", "none", len, 0)
         ELSE Ret("write", "Api", f.code, 0, 0)

\* read_pipe_impl handing back the whole buffer
read_pipe_impl_WholeBuffer(f, cap) ==
  CASE f.tag = "Err" -> Ret("read", "Api", f.code, 0, 0)
    [] f.tag = "None" -> Ret("read", "Timeout", "none", 0, 0)
    [] f.tag = "Some" -> IF f.ok THEN Ret("read", "Ok", "none", cap, 0)
                         ELSE Ret("read", "Api", f.code, 0, 0)

\* read_pipe_impl; n is the length of the slice handed back,
\* `&mut out_buffer[..bytes_transferred]`
read_pipe_impl(f, cap) ==
  CASE f.tag = "Err" -> Ret("read", "Api", f.code, 0, 0)
    [] f.tag = "None" -> Ret("read", "Timeout", "none", 0, 0)
    [] f.tag = "Some" -> IF f.ok THEN Ret("read", "Ok", "none", f.bytes, 0)
                         ELSE Ret("read", "Api", f.code, 0, 0)

pipe_impl(c, f) ==
  CASE c.kind = "connect" -> connect_pipe_impl(f)
    [] c.kind = "write" -> write_pipe_impl(f, Len(c.data))
    [] c.kind = "read" -> read_pipe_impl(f, c.cap)

\* disconnect_pipe_impl, DisconnectNamedPipe: the instance drops its client,
\* unread data in both directions is discarded
disconnect_pipe_impl(i, c, qq) ==
  [inst |-> "disconnected",
   cli |-> IF c = "open" THEN "severed" ELSE c,
   q |-> [e \in Endpoints |-> <<>>],
   loss |-> IF qq["server"] # <<>> THEN "dropped" ELSE "no"]

\* PipeServer::disconnect that leaves the slot filled
PipeServer_disconnect_KeepSlot(o, i, c, qq) ==
  IF o # "Some"
  THEN [ovl |-> o, inst |-> i, cli |-> c, q |-> qq, loss |-> "no"]
  ELSE [ovl |-> "Some"] @@ disconnect_pipe_impl(i, c, qq)

\* PipeServer::disconnect: nothing when the slot is empty
PipeServer_disconnect(o, i, c, qq) ==
  IF o # "Some"
  THEN [ovl |-> o, inst |-> i, cli |-> c, q |-> qq, loss |-> "no"]
  ELSE [ovl |-> "None"] @@ disconnect_pipe_impl(i, c, qq)

\* `self.ovl.take().ok_or(PipeError::NotConnected)?` going on to the I/O
\* whatever the slot holds
take_ok_or_Always(o) == "issue"

\* `self.ovl.take().ok_or(PipeError::NotConnected)?`
take_ok_or(o) == IF o = "Some" THEN "issue" ELSE "NotConnected"

\* the slot after PipeServer::read / write / connect and PipeClient::read /
\* write return r: the Overlapped goes back only on success
SlotAfterKeep(r) == "Some"

SlotAfter(r) == IF r.val = "Ok" THEN "Some" ELSE "None"

\* connected state a caller infers from what the PipeServer calls returned
Track(prev, r) ==
  CASE r.call = "connect" -> r.val = "Ok"
    [] r.call = "disconnect" -> FALSE
    [] r.call \in {"read", "write"} -> prev /\ r.val = "Ok"
    [] OTHER -> prev

\* ------------------------------------------------------- pipe: the state
PipeInit ==
  /\ ovl = [e \in Endpoints |-> "None"]
  /\ pc = [e \in Endpoints |-> "idle"]
  /\ call = [e \in Endpoints |-> NoCall]
  /\ issue = [e \in Endpoints |-> NoIssue]
  /\ fin = [e \in Endpoints |-> NoFin]
  /\ os_pending = [e \in Endpoints |-> <<>>]
  /\ done = [e \in Endpoints |-> NoDone]
  /\ buf = [e \in Endpoints |-> <<>>]
  /\ ret = [e \in Endpoints |-> NoRet]
  /\ inst = "listening"
  /\ cli = "none"
  /\ q = [e \in Endpoints |-> <<>>]
  /\ nsent = 0
  /\ nwrites = 0
  /\ rcvd = <<>>
  /\ lossy = "no"
  /\ expConn = FALSE
  /\ hadTimeout = FALSE

\* the endpoint object exists: the server always, the client while it is open
Exists(e) == e = "server" \/ cli # "none"

\* PipeServer::is_connected
is_connected == ovl["server"] = "Some"

\* what the completion o of an operation of kind k on endpoint e does to the
\* queues, to the buffer b the operation was given and to the histories
ApplyOutcome(e, k, o, b, discarded) ==
  /\ q' = [q EXCEPT ![QueueOf(e, k)] = o.rest]
  /\ buf' = IF k = "read" THEN [buf EXCEPT ![e] = BufWrite(b, o.data)] ELSE buf
  /\ nsent' = IF e = "client" /\ k = "write" /\ o.result = 1 THEN nsent + 1 ELSE nsent
  /\ lossy' = Worse(lossy, Worse(o.loss,
                IF discarded /\ e = "server" /\ k = "read" /\ o.result = 1
                THEN "dropped" ELSE "no"))

\* PipeServer::read / write and PipeClient::read / write with an empty slot:
\* `self.ovl.take().ok_or(PipeError::NotConnected)?`
CallNotConnected(e, k) ==
  /\ pc[e] = "idle" /\ Exists(e)
  /\ take_ok_or(ovl[e]) = "NotConnected"
  /\ ret' = [ret EXCEPT ![e] = Ret(k, "NotConnected", "none", 0, 0)]
  /\ expConn' = IF e = "server" THEN Track(expConn, ret'[e]) ELSE expConn
  /\ UNCHANGED <<ovl, pc, call, issue, fin, os_pending, done, buf, inst, cli,
                 q, nsent, nwrites, rcvd, lossy, hadTimeout>>

\* the call record of a read or write
NewCall(e, k, cap, timeout) ==
  [kind |-> k, cap |-> IF k = "read" THEN cap ELSE 0,
   data |-> IF k # "write" THEN <<>>
            ELSE IF e = "client" THEN Payload(nsent + 1) ELSE ServerMsg,
   timeout |-> timeout]

\* PipeServer::read / write and PipeClient::read / write up to the point
\* where Overlapped::read_file / write_file has classified the OS call
CallIssue(e, k, cap, timeout) ==
  LET c == NewCall(e, k, cap, timeout)
      b == IF k = "read" THEN FillBuf(cap) ELSE buf[e]
  IN
  /\ pc[e] = "idle" /\ Exists(e)
  /\ take_ok_or(ovl[e]) = "issue"
  /\ k = "write" => nwrites < MaxWrites
  /\ nwrites' = IF k = "write" THEN nwrites + 1 ELSE nwrites
  /\ ovl' = [ovl EXCEPT ![e] = "None"]
  /\ call' = [call EXCEPT ![e] = c]
  /\ done' = [done EXCEPT ![e] = NoDone]
  /\ \/ \E o \in Outcomes(e, c), stale \in StaleCodes :
          LET le == IF o.result = 1 THEN stale ELSE o.err
              cls == IssueOp(k, o.result, le, o.bytes)
          IN /\ cls.t = "Finished"
             /\ issue' = [issue EXCEPT ![e] =
                            [t |-> k, result |-> o.result, last_error |-> le, cls |-> cls]]
             /\ fin' = [fin EXCEPT ![e] = finish_Finished(cls)]
             /\ pc' = [pc EXCEPT ![e] = "finished"]
             /\ ApplyOutcome(e, k, o, b, FALSE)
             /\ UNCHANGED os_pending
     \/ /\ ~Severed(e)
        /\ LET cls == IssueOp(k, 0, "ERROR_IO_PENDING", 0) IN
           /\ cls.t = "Pending"
           /\ issue' = [issue EXCEPT ![e] =
                          [t |-> k, result |-> 0, last_error |-> "ERROR_IO_PENDING",
                           cls |-> cls]]
        /\ os_pending' = [os_pending EXCEPT ![e] = Append(@, c)]
        /\ pc' = [pc EXCEPT ![e] = "waiting"]
        /\ buf' = [buf EXCEPT ![e] = b]
        /\ UNCHANGED <<fin, q, nsent, lossy>>
  /\ UNCHANGED <<ret, inst, cli, rcvd, expConn, hadTimeout>>

\* PipeServer::connect: disconnect, Overlapped::new, then
\* Overlapped::connect_named_pipe classifies ConnectNamedPipe
ServerConnect(timeout, eventOk) ==
  LET e == "server"
      d == PipeServer_disconnect(ovl[e], inst, cli, q)
      c == [kind |-> "connect", cap |-> 0, data |-> <<>>, timeout |-> timeout]
  IN
  /\ pc[e] = "idle"
  /\ ovl' = [ovl EXCEPT ![e] = d.ovl]
  /\ cli' = d.cli
  /\ q' = d.q
  /\ lossy' = Worse(lossy, d.loss)
  /\ IF ~eventOk
     THEN /\ ret' = [ret EXCEPT ![e] = Ret("connect", "Api", "CreateEventW", 0, 0)]
          /\ expConn' = Track(expConn, ret'[e])
          /\ inst' = d.inst
          /\ UNCHANGED <<pc, call, issue, fin, os_pending, done>>
     ELSE /\ call' = [call EXCEPT ![e] = c]
          /\ done' = [done EXCEPT ![e] = NoDone]
          /\ IF d.inst \in {"listening", "disconnected"}
             THEN LET cls == IssueOp("connect", 0, "ERROR_IO_PENDING", 0) IN
                  /\ cls.t = "Pending"
                  /\ issue' = [issue EXCEPT ![e] =
                       [t |-> "connect", result |-> 0,
                        last_error |-> "ERROR_IO_PENDING", cls |-> cls]]
                  /\ inst' = "listening"
                  /\ os_pending' = [os_pending EXCEPT ![e] = Append(@, c)]
                  /\ pc' = [pc EXCEPT ![e] = "waiting"]
                  /\ UNCHANGED fin
             ELSE LET le == IF d.inst = "connected" THEN "ERROR_PIPE_CONNECTED"
                            ELSE "ERROR_NO_DATA"
                      cls == IssueOp("connect", 0, le, 0)
                  IN
                  /\ cls.t = "Finished"
                  /\ issue' = [issue EXCEPT ![e] =
                       [t |-> "connect", result |-> 0, last_error |-> le, cls |-> cls]]
                  /\ fin' = [fin EXCEPT ![e] = finish_Finished(cls)]
                  /\ pc' = [pc EXCEPT ![e] = "finished"]
                  /\ inst' = d.inst
                  /\ UNCHANGED os_pending
          /\ UNCHANGED <<ret, expConn>>
  /\ UNCHANGED <<buf, nsent, nwrites, rcvd, hadTimeout>>

\* PipeServer::disconnect called by the owner
ServerDisconnect ==
  LET e == "server"
      d == PipeServer_disconnect(ovl[e], inst, cli, q)
  IN
  /\ pc[e] = "idle"
  /\ ovl' = [ovl EXCEPT ![e] = d.ovl]
  /\ inst' = d.inst
  /\ cli' = d.cli
  /\ q' = d.q
  /\ lossy' = Worse(lossy, d.loss)
  /\ ret' = [ret EXCEPT ![e] = Ret("disconnect", "Ok", "none", 0, 0)]
  /\ expConn' = Track(expConn, ret'[e])
  /\ UNCHANGED <<pc, call, issue, fin, os_pending, done, buf, nsent, nwrites, rcvd, hadTimeout>>

RemoveAt(s, i) == SubSeq(s, 1, i - 1) \o SubSeq(s, i + 1, Len(s))

\* the OS completes one of the operations it has in flight on endpoint e: it
\* moves the data, stores the result in the OVERLAPPED and sets the event
OsComplete(e) ==
  \E i \in DOMAIN os_pending[e] :
    \E o \in Outcomes(e, os_pending[e][i]) :
      /\ os_pending' = [os_pending EXCEPT ![e] = RemoveAt(@, i)]
      /\ done' = [done EXCEPT ![e] =
                    [set |-> TRUE, result |-> o.result, last_error |-> o.err,
                     bytes |-> o.bytes]]
      /\ ApplyOutcome(e, os_pending[e][i].kind, o, buf[e], pc[e] = "dropping")
      /\ UNCHANGED <<ovl, pc, call, issue, fin, ret, inst, cli, nwrites, rcvd,
                     expConn, hadTimeout>>

\* OverlappedResult::finish, Pending arm: Event::wait returned Signalled
WaitSignalled(e) ==
  /\ pc[e] = "waiting"
  /\ done[e].set
  /\ fin' = [fin EXCEPT ![e] = finish_Signalled(done[e])]
  /\ pc' = [pc EXCEPT ![e] = "finished"]
  /\ UNCHANGED <<ovl, call, issue, os_pending, done, buf, ret, inst, cli, q,
                 nsent, nwrites, rcvd, lossy, expConn, hadTimeout>>

\* Event::wait returned Timeout: finish is about to drop the pending value
WaitTimedOut(e) ==
  /\ pc[e] = "waiting"
  /\ call[e].timeout = "finite"
  /\ ~done[e].set
  /\ fin' = [fin EXCEPT ![e] = [tag |-> "None"]]
  /\ pc' = [pc EXCEPT ![e] = "dropping"]
  /\ UNCHANGED <<ovl, call, issue, os_pending, done, buf, ret, inst, cli, q,
                 nsent, nwrites, rcvd, lossy, expConn, hadTimeout>>

\* the OverlappedPending goes out of scope inside finish
DropPending(e) ==
  /\ pc[e] = "dropping"
  /\ os_pending' = [os_pending EXCEPT ![e] = OverlappedPending_drop(@)]
  /\ pc' = [pc EXCEPT ![e] = "finished"]
  /\ UNCHANGED <<ovl, call, issue, fin, done, buf, ret, inst, cli, q, nsent, nwrites,
                 rcvd, lossy, expConn, hadTimeout>>

\* the rest of PipeServer::connect / read / write and PipeClient::read /
\* write: *_pipe_impl turns the finish value into the result, the slot is
\* refilled on success, the server calls disconnect on a read or write error
Return(e) ==
  LET c == call[e]
      r == pipe_impl(c, fin[e])
      d == IF e = "server" /\ c.kind # "connect" /\ r.val # "Ok"
           THEN PipeServer_disconnect(ovl[e], inst, cli, q)
           ELSE [ovl |-> ovl[e], inst |-> inst, cli |-> cli, q |-> q, loss |-> "no"]
  IN
  /\ pc[e] = "finished"
  /\ fin[e].tag # "panic"
  /\ ovl' = [ovl EXCEPT ![e] = IF SlotAfter(r) = "Some" THEN "Some" ELSE d.ovl]
  /\ inst' = d.inst
  /\ cli' = d.cli
  /\ q' = d.q
  /\ lossy' = Worse(lossy, d.loss)
  /\ ret' = [ret EXCEPT ![e] = r]
  /\ rcvd' = IF e = "server" /\ c.kind = "read" /\ r.val = "Ok"
             THEN Append(rcvd, SubSeq(buf[e], 1, r.n)) ELSE rcvd
  /\ expConn' = IF e = "server" THEN Track(expConn, r) ELSE expConn
  /\ hadTimeout' = (hadTimeout \/ (e = "server" /\ c.kind = "connect" /\ r.val = "Timeout"))
  /\ pc' = [pc EXCEPT ![e] = "idle"]
  /\ call' = [call EXCEPT ![e] = NoCall]
  /\ issue' = [issue EXCEPT ![e] = NoIssue]
  /\ fin' = [fin EXCEPT ![e] = NoFin]
  /\ done' = [done EXCEPT ![e] = NoDone]
  /\ UNCHANGED <<os_pending, buf, nsent, nwrites>>

\* PipeClient::open_duplex: CreateFileW attaches to a listening instance
ClientOpen ==
  /\ cli = "none"
  /\ inst = "listening"
  /\ cli' = "open"
  /\ inst' = "connected"
  /\ ovl' = [ovl EXCEPT !["client"] = "Some"]
  /\ ret' = [ret EXCEPT !["client"] = NoRet]
  /\ UNCHANGED <<pc, call, issue, fin, os_pending, done, buf, q, nsent, nwrites, rcvd,
                 lossy, expConn, hadTimeout>>

\* the PipeClient is dropped: its Overlapped goes and its handle is closed
ClientClose ==
  /\ cli # "none"
  /\ pc["client"] = "idle"
  /\ cli' = "none"
  /\ ovl' = [ovl EXCEPT !["client"] = "None"]
  /\ ret' = [ret EXCEPT !["client"] = NoRet]
  /\ buf' = [buf EXCEPT !["client"] = <<>>]
  /\ inst' = IF cli = "open" THEN "closing" ELSE inst
  /\ q' = IF cli = "open" THEN [q EXCEPT !["client"] = <<>>] ELSE q
  /\ UNCHANGED <<pc, call, issue, fin, os_pending, done, nsent, nwrites, rcvd,
                 lossy, expConn, hadTimeout>>

\* buffers and timeouts the callers pass: the client side reads with a buffer
\* of the largest size and waits without a bound (bits_server.rs)
CallCaps(e) == IF e = "server" THEN Caps ELSE {MaxCap}
CallTimeouts(e) == IF e = "server" THEN Timeouts ELSE {"infinite"}

PipeNext ==
  \/ \E e \in Endpoints, k \in {"read", "write"} : CallNotConnected(e, k)
  \/ \E e \in Endpoints, k \in {"read", "write"} :
       \E cap \in CallCaps(e), t \in CallTimeouts(e) : CallIssue(e, k, cap, t)
  \/ \E t \in Timeouts, ok \in BOOLEAN : ServerConnect(t, ok)
  \/ ServerDisconnect
  \/ \E e \in Endpoints : OsComplete(e)
  \/ \E e \in Endpoints : WaitSignalled(e)
  \/ \E e \in Endpoints : WaitTimedOut(e)
  \/ \E e \in Endpoints : DropPending(e)
  \/ \E e \in Endpoints : Return(e)
  \/ ClientOpen
  \/ ClientClose

\* ------------------------------------------- adapter: callback.rs, the code
Holders == {"registrant", "bits1", "bits2"}
ServiceThreads == {"bits1", "bits2"}
Kinds == {"transferred", "error", "modification"}
Handlers == {"none", "ok", "fail", "panic"}
Riids == {"IUnknown", "IBackgroundCopyCallback", "IOther"}

\* addref: `*rc += 1; *rc` under the mutex
addref(count) == count + 1

\* query_interface that hands out the pointer without counting it
query_interface_NoAddRef(count, riid) ==
  IF riid \in {"IUnknown", "IBackgroundCopyCallback"}
  THEN [rc |-> count, hr |-> "NOERROR", given |-> TRUE]
  ELSE [rc |-> count, hr |-> "E_NOINTERFACE", given |-> FALSE]

\* query_interface: the two known interfaces get a counted pointer
query_interface(count, riid) ==
  IF riid \in {"IUnknown", "IBackgroundCopyCallback"}
  THEN [rc |-> addref(count), hr |-> "NOERROR", given |-> TRUE]
  ELSE [rc |-> count, hr |-> "E_NOINTERFACE", given |-> FALSE]

\* a release that drops the adapter while one reference is left
release_DropAtOne(count) == [rc |-> count - 1, destroy |-> ~(count - 1 > 1)]

\* release: `*rc -= 1`, return when `*rc > 0`, else fall through to the drop
release(count) == [rc |-> count - 1, destroy |-> ~(count - 1 > 0)]

\* a stub that calls the handler without catch_unwind
stub_NoCatch(cb) ==
  CASE cb = "none" -> "S_OK"
    [] cb = "ok" -> "S_OK"
    [] cb = "fail" -> "E_HANDLER"
    [] cb = "panic" -> "unwind"

\* transferred_stub / error_stub / modification_stub on the handler cb:
\* no handler or Ok(()) gives S_OK, Err(hr) gives hr, a caught panic E_FAIL
stub(cb) ==
  CASE cb = "none" -> "S_OK"
    [] cb = "ok" -> "S_OK"
    [] cb = "fail" -> "E_HANDLER"
    [] cb = "panic" -> "E_FAIL"

\* ---------------------------------------------------- adapter: the state
AdapterOff ==
  /\ rc = 0
  /\ mem = "none"
  /\ held = [h \in Holders |-> 0]
  /\ tpc = [h \in Holders |-> "idle"]
  /\ cbs = [k \in Kinds |-> "none"]
  /\ hr = "none"
  /\ acq = 0
  /\ rel = 0
  /\ destroys = 0
  /\ uaf = FALSE
  /\ ev = "none"

\* BackgroundCopyCallback::register up to the call of set_notify_interface:
\* the adapter is boxed with a count of 1 and leaked
Register(cfg) ==
  /\ mem = "none"
  /\ mem' = "alive"
  /\ rc' = 1
  /\ cbs' = cfg
  /\ held' = [held EXCEPT !["registrant"] = 1]
  /\ tpc' = [tpc EXCEPT !["registrant"] = "set_notify"]
  /\ acq' = 1
  /\ UNCHANGED <<hr, rel, destroys, uaf, ev>>

\* set_notify_interface succeeded: the service asked the adapter for its
\* callback interface and keeps the counted pointer
SetNotifyOk ==
  LET qi == query_interface(rc, "IBackgroundCopyCallback") IN
  /\ tpc["registrant"] = "set_notify"
  /\ acq < MaxAcq
  /\ rc' = qi.rc
  /\ hr' = qi.hr
  /\ held' = [held EXCEPT !["bits1"] = @ + 1]
  /\ acq' = acq + 1
  /\ tpc' = [tpc EXCEPT !["registrant"] = "release"]
  /\ ev' = "none"
  /\ UNCHANGED <<mem, cbs, rel, destroys, uaf>>

\* set_notify_interface failed: `?` leaves register before the Release
SetNotifyFail ==
  /\ tpc["registrant"] = "set_notify"
  /\ held' = [held EXCEPT !["registrant"] = 0]
  /\ tpc' = [tpc EXCEPT !["registrant"] = "idle"]
  /\ UNCHANGED <<rc, mem, cbs, hr, acq, rel, destroys, uaf, ev>>

\* holder h may call into the adapter now
MayCall(h) ==
  /\ held[h] > 0
  /\ IF h = "registrant" THEN tpc[h] = "release" ELSE tpc[h] = "idle"

\* AddRef by a service thread; the new reference goes to thread `to`
AddRef(h, to) ==
  /\ h \in ServiceThreads /\ MayCall(h)
  /\ acq < MaxAcq
  /\ rc' = IF mem = "alive" THEN addref(rc) ELSE rc
  /\ uaf' = (uaf \/ mem # "alive")
  /\ held' = [held EXCEPT ![to] = @ + 1]
  /\ acq' = acq + 1
  /\ UNCHANGED <<mem, tpc, cbs, hr, rel, destroys, ev>>

\* QueryInterface by a service thread
QueryInterface(h, riid, to) ==
  LET qi == query_interface(rc, riid) IN
  /\ h \in ServiceThreads /\ MayCall(h)
  /\ acq < MaxAcq
  /\ rc' = IF mem = "alive" THEN qi.rc ELSE rc
  /\ uaf' = (uaf \/ mem # "alive")
  /\ hr' = qi.hr
  /\ held' = IF qi.given THEN [held EXCEPT ![to] = @ + 1] ELSE held
  /\ acq' = IF qi.given THEN acq + 1 ELSE acq
  /\ ev' = "none"
  /\ UNCHANGED <<mem, tpc, cbs, rel, destroys>>

\* Release, the part under the mutex: the count goes down and the caller
\* either returns or goes on to drop the adapter
ReleaseDec(h) ==
  LET r == release(rc) IN
  /\ MayCall(h)
  /\ held' = [held EXCEPT ![h] = @ - 1]
  /\ rel' = rel + 1
  /\ IF mem = "alive"
     THEN /\ rc' = r.rc
          /\ tpc' = [tpc EXCEPT ![h] = IF r.destroy THEN "destroy" ELSE "idle"]
          /\ UNCHANGED uaf
     ELSE /\ uaf' = TRUE
          /\ tpc' = [tpc EXCEPT ![h] = "idle"]
          /\ UNCHANGED rc
  /\ UNCHANGED <<mem, cbs, hr, acq, destroys, ev>>

\* Release, after the mutex: `Box::from_raw(this)` is dropped
ReleaseDestroy(h) ==
  /\ tpc[h] = "destroy"
  /\ mem' = "freed"
  /\ destroys' = destroys + 1
  /\ uaf' = (uaf \/ mem # "alive")
  /\ tpc' = [tpc EXCEPT ![h] = "idle"]
  /\ UNCHANGED <<rc, held, cbs, hr, acq, rel, ev>>

\* the service delivers an event of kind k on one of its threads
Invoke(h, k) ==
  /\ h \in ServiceThreads /\ MayCall(h)
  /\ hr' = IF mem = "alive" THEN stub(cbs[k]) ELSE "garbage"
  /\ uaf' = (uaf \/ mem # "alive")
  /\ ev' = k
  /\ UNCHANGED <<rc, mem, held, tpc, cbs, acq, rel, destroys>>

AdapterNext ==
  \/ \E cfg \in [Kinds -> Handlers] : Register(cfg)
  \/ SetNotifyOk
  \/ SetNotifyFail
  \/ \E h \in Holders, to \in ServiceThreads : AddRef(h, to)
  \/ \E h \in Holders, riid \in Riids, to \in ServiceThreads : QueryInterface(h, riid, to)
  \/ \E h \in Holders : ReleaseDec(h)
  \/ \E h \in Holders : ReleaseDestroy(h)
  \/ \E h \in Holders, k \in Kinds : Invoke(h, k)

\* ------------------------------------ adapter threads: addref and release
\* Mutex::lock on the count: the guard is granted when no thread owns it
\* (no thread panics while it owns the guard, so the mutex is never poisoned)
mutex_lock_NoExclusion(m) == TRUE

mutex_lock(m) == m = "free"

ThreadsOff ==
  /\ mtx = "free"
  /\ tmp = [h \in Holders |-> 0]

\* holder h is not inside a call and owns a reference
Owns(h) == tpc[h] = "idle" /\ held[h] > 0

\* Box::new(BackgroundCopyCallback { rc: Mutex::new(1), .. }) and Box::leak
Construct ==
  /\ mem = "none"
  /\ mem' = "alive"
  /\ rc' = 1
  /\ held' = [held EXCEPT !["registrant"] = 1]
  /\ acq' = 1
  /\ UNCHANGED <<tpc, cbs, hr, rel, destroys, uaf, ev, threadVars>>

\* a holder enters addref, on its own reference
AddRefCall(h) ==
  /\ Owns(h)
  /\ acq < MaxAcq
  /\ tpc' = [tpc EXCEPT ![h] = "addref_lock"]
  /\ UNCHANGED <<rc, mem, held, cbs, hr, acq, rel, destroys, uaf, ev, threadVars>>

\* a holder enters release and gives its reference up
ReleaseCall(h) ==
  /\ Owns(h)
  /\ held' = [held EXCEPT ![h] = @ - 1]
  /\ rel' = rel + 1
  /\ tpc' = [tpc EXCEPT ![h] = "release_lock"]
  /\ UNCHANGED <<rc, mem, cbs, hr, acq, destroys, uaf, ev, threadVars>>

\* `if let Ok(mut rc) = (*this).rc.lock()`: the guard is taken and the count
\* read through it
LockCount(h) ==
  /\ tpc[h] \in {"addref_lock", "release_lock"}
  /\ mutex_lock(mtx)
  /\ mtx' = h
  /\ tmp' = [tmp EXCEPT ![h] = rc]
  /\ tpc' = [tpc EXCEPT ![h] = IF tpc[h] = "addref_lock" THEN "addref_locked"
                                ELSE "release_locked"]
  /\ uaf' = (uaf \/ mem # "alive")
  /\ UNCHANGED <<rc, mem, held, cbs, hr, acq, rel, destroys, ev>>

\* addref: `*rc += 1; *rc`, the guard dropped on return; the new reference
\* goes to holder `to`
AddRefStore(h, to) ==
  /\ tpc[h] = "addref_locked"
  /\ rc' = addref(tmp[h])
  /\ mtx' = "free"
  /\ held' = [held EXCEPT ![to] = @ + 1]
  /\ acq' = acq + 1
  /\ tpc' = [tpc EXCEPT ![h] = "idle"]
  /\ uaf' = (uaf \/ mem # "alive")
  /\ UNCHANGED <<mem, cbs, hr, rel, destroys, ev, tmp>>

\* release: `*rc -= 1`, return `*rc` when positive, else leave the scope of
\* the guard and go on to the drop
ReleaseStore(h) ==
  LET r == release(tmp[h]) IN
  /\ tpc[h] = "release_locked"
  /\ rc' = r.rc
  /\ mtx' = "free"
  /\ tpc' = [tpc EXCEPT ![h] = IF r.destroy THEN "destroy" ELSE "idle"]
  /\ uaf' = (uaf \/ mem # "alive")
  /\ UNCHANGED <<mem, held, cbs, hr, acq, rel, destroys, ev, tmp>>

ThreadsNext ==
  \/ Construct
  \/ \E h \in Holders : AddRefCall(h)
  \/ \E h \in Holders : ReleaseCall(h)
  \/ \E h \in Holders : LockCount(h)
  \/ \E h \in Holders, to \in Holders : AddRefStore(h, to)
  \/ \E h \in Holders : ReleaseStore(h)
  \/ \E h \in Holders : ReleaseDestroy(h) /\ UNCHANGED threadVars

\* ------------------------------------- job: adapters registered one by one
Adapters == 1..MaxAdapters

JobOff ==
  /\ jrc = [a \in Adapters |-> 0]
  /\ jmem = [a \in Adapters |-> "none"]
  /\ notify = {}
  /\ replaced = {}
  /\ regpc = "idle"
  /\ rega = 0
  /\ svc = 0
  /\ wasReg = {}
  /\ invd = {}
  /\ late = FALSE

\* a call through the pointer to adapter a finds it dropped
Gone(a) == jmem[a] # "alive"

\* BitsJob::register_callbacks -> BackgroundCopyCallback::register, up to the
\* call of set_notify_interface: a new adapter with a count of 1, leaked
JobRegister(a) ==
  /\ regpc = "idle"
  /\ jmem[a] = "none"
  /\ \A b \in Adapters : b < a => jmem[b] # "none"
  /\ jmem' = [jmem EXCEPT ![a] = "alive"]
  /\ jrc' = [jrc EXCEPT ![a] = 1]
  /\ regpc' = "set_notify"
  /\ rega' = a
  /\ UNCHANGED <<notify, replaced, svc, wasReg, invd, late>>

\* IBackgroundCopyJob::SetNotifyInterface succeeds: the service queries the
\* new adapter for IBackgroundCopyCallback, keeps that counted pointer as the
\* job's only notify interface and owes the replaced one a Release
JobSetNotifyOk ==
  LET qi == query_interface(jrc[rega], "IBackgroundCopyCallback") IN
  /\ regpc = "set_notify"
  /\ jrc' = [jrc EXCEPT ![rega] = qi.rc]
  /\ notify' = {rega}
  /\ replaced' = replaced \cup notify
  /\ wasReg' = wasReg \cup {rega}
  /\ regpc' = "release"
  /\ UNCHANGED <<jmem, rega, svc, invd, late>>

\* SetNotifyInterface fails: `?` returns from register before the Release
JobSetNotifyFail ==
  /\ regpc = "set_notify"
  /\ regpc' = "idle"
  /\ rega' = 0
  /\ UNCHANGED <<jrc, jmem, notify, replaced, svc, wasReg, invd, late>>

\* `(*cb).Release()` at the end of register
JobRelease ==
  LET r == release(jrc[rega]) IN
  /\ regpc = "release"
  /\ jrc' = [jrc EXCEPT ![rega] = r.rc]
  /\ jmem' = [jmem EXCEPT ![rega] = IF r.destroy THEN "freed" ELSE @]
  /\ late' = (late \/ Gone(rega))
  /\ regpc' = "idle"
  /\ rega' = 0
  /\ UNCHANGED <<notify, replaced, svc, wasReg, invd>>

\* the service releases an adapter that was replaced
SvcReleaseStale(a) ==
  LET r == release(jrc[a]) IN
  /\ a \in replaced
  /\ replaced' = replaced \ {a}
  /\ jrc' = [jrc EXCEPT ![a] = r.rc]
  /\ jmem' = [jmem EXCEPT ![a] = IF r.destroy THEN "freed" ELSE @]
  /\ late' = (late \/ Gone(a))
  /\ UNCHANGED <<notify, regpc, rega, svc, wasReg, invd>>

\* the job is completed or cancelled: the service lets its notify interface go
SvcJobDone ==
  /\ notify # {}
  /\ regpc = "idle"
  /\ replaced' = replaced \cup notify
  /\ notify' = {}
  /\ UNCHANGED <<jrc, jmem, regpc, rega, svc, wasReg, invd, late>>

\* a service thread starts delivering an event to the registered adapter,
\* on a reference of its own (addref)
SvcBegin(a) ==
  /\ svc = 0
  /\ a \in notify
  /\ svc' = a
  /\ jrc' = [jrc EXCEPT ![a] = addref(@)]
  /\ late' = (late \/ Gone(a))
  /\ UNCHANGED <<jmem, notify, replaced, regpc, rega, wasReg, invd>>

\* the stub of the event's kind runs the handler
SvcInvoke ==
  /\ svc # 0
  /\ invd' = invd \cup {svc}
  /\ late' = (late \/ Gone(svc))
  /\ UNCHANGED <<jrc, jmem, notify, replaced, regpc, rega, svc, wasReg>>

\* the delivery is over, the service thread releases its reference
SvcEnd ==
  LET r == release(jrc[svc]) IN
  /\ svc # 0
  /\ svc \in invd
  /\ jrc' = [jrc EXCEPT ![svc] = r.rc]
  /\ jmem' = [jmem EXCEPT ![svc] = IF r.destroy THEN "freed" ELSE @]
  /\ late' = (late \/ Gone(svc))
  /\ svc' = 0
  /\ UNCHANGED <<notify, replaced, regpc, rega, wasReg, invd>>

JobNext ==
  \/ \E a \in Adapters : JobRegister(a)
  \/ JobSetNotifyOk
  \/ JobSetNotifyFail
  \/ JobRelease
  \/ \E a \in Adapters : SvcReleaseStale(a)
  \/ SvcJobDone
  \/ \E a \in Adapters : SvcBegin(a)
  \/ SvcInvoke
  \/ SvcEnd

\* -------------------------------- monitor: handlers and the shared state
\* the threads the service runs transferred_cb and error_cb on
HandlerThreads == {"transferred", "error"}

NoHret == [val |-> "none", monGone |-> FALSE, others |-> FALSE,
           wrote |-> FALSE, woke |-> FALSE]

MonitorOff ==
  /\ mon = "none"
  /\ strong = 0
  /\ vmem = "none"
  /\ notified = FALSE
  /\ shutdown = FALSE
  /\ mlk = "free"
  /\ waiting = FALSE
  /\ hpc = [t \in HandlerThreads |-> "idle"]
  /\ hret = [t \in HandlerThreads |-> NoHret]
  /\ cpc = "idle"
  /\ gpc = "idle"
  /\ badTouch = FALSE

\* an upgrade that hands out the pointer whatever the strong count
upgrade_Unchecked(count) == TRUE

\* Weak::upgrade: Some while a strong reference exists
upgrade(count) == count > 0

\* dropping one Arc: the ControlPair is freed with the last strong reference
ArcDrop(count) == [strong |-> count - 1,
                   vmem |-> IF count - 1 = 0 THEN "freed" ELSE "alive"]

\* InProcessMonitor::new: the Arc is built, the handlers capture Weak handles
MonitorNew ==
  /\ mon = "none"
  /\ mon' = "alive"
  /\ strong' = 1
  /\ vmem' = "alive"
  /\ UNCHANGED <<notified, shutdown, mlk, waiting, hpc, hret, cpc, badTouch, gpc>>

\* the InProcessMonitor is dropped by its owner, between calls of get_status
MonitorDrop ==
  LET d == ArcDrop(strong) IN
  /\ mon = "alive"
  /\ ~waiting /\ mlk # "monitor" /\ gpc = "idle"
  /\ mon' = "dropped"
  /\ strong' = d.strong
  /\ vmem' = d.vmem
  /\ UNCHANGED <<notified, shutdown, mlk, waiting, hpc, hret, cpc, badTouch, gpc>>

\* get_status: the lock is taken, shutdown and notified are looked at; a
\* pending notification is consumed, otherwise the thread waits
GetStatusLock ==
  /\ mon = "alive" /\ ~waiting
  /\ gpc = "idle"
  /\ mlk = "free"
  /\ mlk' = "monitor"
  /\ UNCHANGED <<mon, strong, vmem, notified, shutdown, waiting, hpc, hret, cpc,
                 badTouch, gpc>>

\* what one pass of the loop can find besides the two flags: the timeout
\* passed ("over"), a snapshot due or the first one ("due"), or neither
Passes == {"over", "due", "wait"}

\* a wait_timeout that keeps the mutex while the thread is blocked
wait_timeout_Held(owner) == owner

\* Condvar::wait_timeout: the mutex is released for as long as the thread is
\* blocked
wait_timeout(owner) == "free"

GetStatusCheck(pass) ==
  /\ mlk = "monitor"
  /\ IF shutdown
     THEN mlk' = "free" /\ UNCHANGED <<notified, waiting, gpc>>
     ELSE IF pass = "over"
     THEN mlk' = "free" /\ gpc' = "failed" /\ UNCHANGED <<notified, waiting>>
     ELSE IF notified \/ pass = "due"
     THEN mlk' = "free" /\ notified' = FALSE /\ gpc' = "fetch" /\ UNCHANGED waiting
     ELSE mlk' = wait_timeout(mlk) /\ waiting' = TRUE /\ UNCHANGED <<notified, gpc>>
  /\ UNCHANGED <<mon, strong, vmem, shutdown, hpc, hret, cpc, badTouch>>

\* the fetch, outside the block that held the guard: job(), get_status(),
\* get_remote_name(); it succeeds or fails
GetStatusFetch(ok) ==
  /\ gpc = "fetch"
  /\ gpc' = IF ok THEN "idle" ELSE "failed"
  /\ UNCHANGED <<mon, strong, vmem, notified, shutdown, mlk, waiting, hpc, hret,
                 cpc, badTouch>>

\* or_else: `self.vars.1.lock().unwrap().shutdown = true`
GetStatusShut ==
  /\ gpc = "failed"
  /\ mlk = "free"
  /\ shutdown' = TRUE
  /\ gpc' = "idle"
  /\ UNCHANGED <<mon, strong, vmem, notified, mlk, waiting, hpc, hret, cpc,
                 badTouch>>

\* the wait times out
GetStatusTimeout ==
  /\ waiting
  /\ waiting' = FALSE
  /\ UNCHANGED <<mon, strong, vmem, notified, shutdown, mlk, hpc, hret, cpc,
                 badTouch, gpc>>

\* the service calls transferred_cb / error_cb: `control.0.upgrade()`
HandlerCall(t) ==
  /\ hpc[t] = "idle"
  /\ mon # "none"
  /\ IF upgrade(strong)
     THEN /\ strong' = strong + 1
          /\ hpc' = [hpc EXCEPT ![t] = "upgraded"]
          /\ hret' = [hret EXCEPT ![t] = [NoHret EXCEPT
                        !.val = "running", !.monGone = (mon = "dropped"),
                        !.others = (strong > (IF mon = "alive" THEN 1 ELSE 0))]]
     ELSE /\ hret' = [hret EXCEPT ![t] = [NoHret EXCEPT
                        !.val = "E_FAIL", !.monGone = (mon = "dropped")]]
          /\ UNCHANGED <<strong, hpc, gpc>>
  /\ badTouch' = (badTouch \/ (upgrade(strong) /\ vmem # "alive"))
  /\ UNCHANGED <<mon, vmem, notified, shutdown, mlk, waiting, cpc, gpc>>

\* `control.1.lock()`
HandlerLock(t) ==
  /\ hpc[t] = "upgraded"
  /\ mlk = "free"
  /\ mlk' = t
  /\ hpc' = [hpc EXCEPT ![t] = "locked"]
  /\ badTouch' = (badTouch \/ vmem # "alive")
  /\ UNCHANGED <<mon, strong, vmem, notified, shutdown, waiting, hret, cpc, gpc>>

\* `vars.notified = true; control.0.notify_all(); return Ok(())`, the guard
\* and the upgraded Arc dropped on the way out
HandlerFinish(t) ==
  LET d == ArcDrop(strong) IN
  /\ hpc[t] = "locked"
  /\ notified' = TRUE
  /\ waiting' = FALSE
  /\ mlk' = "free"
  /\ strong' = d.strong
  /\ vmem' = IF vmem = "alive" THEN d.vmem ELSE vmem
  /\ hpc' = [hpc EXCEPT ![t] = "idle"]
  /\ hret' = [hret EXCEPT ![t] = [@ EXCEPT !.val = "S_OK", !.wrote = TRUE,
                                             !.woke = TRUE]]
  /\ badTouch' = (badTouch \/ vmem # "alive")
  /\ UNCHANGED <<mon, shutdown, cpc, gpc>>

\* InProcessClient::stop_update: get_monitor_control_sender upgrades the Weak
\* kept in `monitors`
ClientUpgrade ==
  /\ cpc = "idle"
  /\ mon # "none"
  /\ IF upgrade(strong)
     THEN strong' = strong + 1 /\ cpc' = "sender"
     ELSE UNCHANGED <<strong, cpc, gpc>>
  /\ badTouch' = (badTouch \/ (upgrade(strong) /\ vmem # "alive"))
  /\ UNCHANGED <<mon, vmem, notified, shutdown, mlk, waiting, hpc, hret, gpc>>

\* `sender.1.lock().unwrap().shutdown = true; sender.0.notify_all()`, then the
\* sender is dropped
ClientStop ==
  LET d == ArcDrop(strong) IN
  /\ cpc = "sender"
  /\ mlk = "free"
  /\ shutdown' = TRUE
  /\ waiting' = FALSE
  /\ strong' = d.strong
  /\ vmem' = IF vmem = "alive" THEN d.vmem ELSE vmem
  /\ cpc' = "idle"
  /\ badTouch' = (badTouch \/ vmem # "alive")
  /\ UNCHANGED <<mon, notified, mlk, hpc, hret, gpc>>

\* InProcessClient::set_update_interval: the interval is stored under the
\* lock, `sender.0.notify_all()`, then the sender is dropped
ClientSetInterval ==
  LET d == ArcDrop(strong) IN
  /\ cpc = "sender"
  /\ mlk = "free"
  /\ waiting' = FALSE
  /\ strong' = d.strong
  /\ vmem' = IF vmem = "alive" THEN d.vmem ELSE vmem
  /\ cpc' = "idle"
  /\ badTouch' = (badTouch \/ vmem # "alive")
  /\ UNCHANGED <<mon, notified, shutdown, mlk, hpc, hret, gpc>>

MonitorNext ==
  \/ MonitorNew
  \/ MonitorDrop
  \/ GetStatusLock
  \/ \E pass \in Passes : GetStatusCheck(pass)
  \/ \E ok \in BOOLEAN : GetStatusFetch(ok)
  \/ GetStatusShut
  \/ GetStatusTimeout
  \/ \E t \in HandlerThreads : HandlerCall(t)
  \/ \E t \in HandlerThreads : HandlerLock(t)
  \/ \E t \in HandlerThreads : HandlerFinish(t)
  \/ ClientUpgrade
  \/ ClientStop
  \/ ClientSetInterval

\* ------------------------------------ protocol: bits_protocol.rs, the data
MAX_COMMAND == 16384
MAX_RESPONSE == 16384
PROTOCOL_VERSION == 0

\* job ids: 1..MaxJobs can be held by the service, 0 never is
Guids == 0..MaxJobs

\* a string: what it says (id) and how many code units it has (n)
Str(id, n) == [id |-> id, n |-> n]
NoStr == Str(0, 0)
\* urls, the longest one that fits a request frame and the next longer one
Urls == {Str(1, 1), Str(1, 8176), Str(1, 8177)}
SavePath == Str(2, 1)
PipeName == Str(3, 1)
ErrText == Str(4, 40)
E_FAIL == -2147467259

\* Option<MonitorConfig>
NoMonitor == [some |-> FALSE, pipe_name |-> NoStr, interval_millis |-> 0]
SomeMonitor(p, ms) == [some |-> TRUE, pipe_name |-> p, interval_millis |-> ms]

\* enum Command, in declaration order
CommandTags == <<"StartJob", "MonitorJob", "ResumeJob", "SetJobPriority",
                 "SetUpdateInterval", "CompleteJob", "CancelJob">>

Commands ==
  {[tag |-> "StartJob", url |-> u, save_path |-> SavePath, monitor |-> m] :
     u \in Urls, m \in {NoMonitor, SomeMonitor(PipeName, 1000)}}
  \cup {[tag |-> "MonitorJob", guid |-> g, monitor |-> SomeMonitor(PipeName, 1000)] :
          g \in Guids}
  \cup {[tag |-> t, guid |-> g] :
          t \in {"ResumeJob", "CompleteJob", "CancelJob"}, g \in Guids}
  \cup {[tag |-> "SetJobPriority", guid |-> g, foreground |-> b] :
          g \in Guids, b \in BOOLEAN}
  \cup {[tag |-> "SetUpdateInterval", guid |-> g, interval_millis |-> 1000] :
          g \in Guids}

\* the failure enum of each command: variants in declaration order, each
\* with the type of its payload
FailureVariants(tag) ==
  CASE tag = "StartJob" ->
         << <<"ArgumentValidation", "str">>, <<"Create", "i32">>,
            <<"AddFile", "i32">>, <<"ApplySettings", "i32">>,
            <<"Resume", "i32">>, <<"OtherBITS", "i32">>, <<"Other", "str">> >>
    [] tag = "MonitorJob" ->
         << <<"ArgumentValidation", "str">>, <<"NotFound", "unit">>,
            <<"GetJob", "i32">>, <<"OtherBITS", "i32">>, <<"Other", "str">> >>
    [] tag = "ResumeJob" ->
         << <<"NotFound", "unit">>, <<"GetJob", "i32">>, <<"ResumeJob", "i32">>,
            <<"OtherBITS", "i32">>, <<"Other", "str">> >>
    [] tag = "SetJobPriority" ->
         << <<"NotFound", "unit">>, <<"GetJob", "i32">>,
            <<"ApplySettings", "i32">>, <<"OtherBITS", "i32">>,
            <<"Other", "str">> >>
    [] tag = "SetUpdateInterval" ->
         << <<"ArgumentValidation", "str">>, <<"NotFound", "unit">>,
            <<"GetJob", "i32">>, <<"ApplySettings", "i32">>,
            <<"OtherBITS", "i32">>, <<"Other", "str">> >>
    [] tag = "CompleteJob" ->
         << <<"NotFound", "unit">>, <<"GetJob", "i32">>,
            <<"CompleteJob", "i32">>, <<"PartialComplete", "unit">>,
            <<"OtherBITS", "i32">>, <<"Other", "str">> >>
    [] tag = "CancelJob" ->
         << <<"NotFound", "unit">>, <<"GetJob", "i32">>, <<"CancelJob", "i32">>,
            <<"OtherBITS", "i32">>, <<"Other", "str">> >>

\* Result<T::Success, T::Failure> as one record shape
OkGuid(g) == [ok |-> TRUE, variant |-> "StartJobSuccess", guid |-> g, hr |-> 0,
              msg |-> NoStr]
OkUnit == [ok |-> TRUE, variant |-> "Unit", guid |-> 0, hr |-> 0, msg |-> NoStr]
Failed(variant, payload) ==
  [ok |-> FALSE, variant |-> variant, guid |-> 0,
   hr |-> IF payload = "i32" THEN E_FAIL ELSE 0,
   msg |-> IF payload = "str" THEN ErrText ELSE NoStr]

\* every value of Result<T::Success, T::Failure> for the command tagged `tag`
Results(tag) ==
  (IF tag = "StartJob" THEN {OkGuid(g) : g \in Guids \ {0}} ELSE {OkUnit})
  \cup {Failed(FailureVariants(tag)[i][1], FailureVariants(tag)[i][2]) :
          i \in DOMAIN FailureVariants(tag)}

\* --------------------------------- protocol: serialize and deserialize
\* a frame is the sequence of the primitive values written one after the
\* other: fixed-width integers, enum variant indices as u32, Option and
\* bool tags as u8, strings with a u64 length in front
Tok(t, v, n) == [t |-> t, v |-> v, n |-> n]
U32(v) == Tok("u32", v, 0)
I32(v) == Tok("i32", v, 0)
U8(v) == Tok("u8", v, 0)
GuidTok(g) == Tok("guid", g, 0)
OsStrTok(x) == Tok("osstr", x.id, x.n)
StrTok(x) == Tok("str", x.id, x.n)

\* bytes a primitive takes: GUID 4 + 2 + 2 + 8; OsString a variant index,
\* a length and two bytes a unit; String a length and its bytes
TokSize(k) ==
  CASE k.t \in {"u32", "i32"} -> 4
    [] k.t = "u8" -> 1
    [] k.t = "guid" -> 16
    [] k.t = "osstr" -> 4 + 8 + 2 * k.n
    [] k.t = "str" -> 8 + k.n

RECURSIVE FrameLen(_)
FrameLen(f) == IF f = <<>> THEN 0 ELSE TokSize(Head(f)) + FrameLen(Tail(f))

\* the frame has a primitive of type t at position i
Has(f, i, t) == Len(f) >= i /\ f[i].t = t

VariantIndex(names, x) == (CHOOSE i \in DOMAIN names : names[i] = x) - 1

serialize_MonitorConfig(m) == <<OsStrTok(m.pipe_name), U32(m.interval_millis)>>

\* serialize(&T::new(cmd))
serialize_Command(c) ==
  <<U32(VariantIndex(CommandTags, c.tag))>> \o
  CASE c.tag = "StartJob" ->
         <<OsStrTok(c.url), OsStrTok(c.save_path)>> \o
         (IF c.monitor.some THEN <<U8(1)>> \o serialize_MonitorConfig(c.monitor)
          ELSE <<U8(0)>>)
    [] c.tag = "MonitorJob" ->
         <<GuidTok(c.guid)>> \o serialize_MonitorConfig(c.monitor)
    [] c.tag \in {"ResumeJob", "CompleteJob", "CancelJob"} -> <<GuidTok(c.guid)>>
    [] c.tag = "SetJobPriority" ->
         <<GuidTok(c.guid), U8(IF c.foreground THEN 1 ELSE 0)>>
    [] c.tag = "SetUpdateInterval" -> <<GuidTok(c.guid), U32(c.interval_millis)>>

Undecodable == [tag |-> "Undecodable"]

\* deserialize::<Command>(buf)
deserialize_Command(f) ==
  IF ~Has(f, 1, "u32") THEN Undecodable
  ELSE IF f[1].v \notin 0..(Len(CommandTags) - 1) THEN Undecodable
  ELSE
    LET tag == CommandTags[f[1].v + 1] IN
    CASE tag = "StartJob" ->
           IF ~(Has(f, 2, "osstr") /\ Has(f, 3, "osstr") /\ Has(f, 4, "u8"))
           THEN Undecodable
           ELSE IF f[4].v = 0
           THEN [tag |-> tag, url |-> Str(f[2].v, f[2].n),
                 save_path |-> Str(f[3].v, f[3].n), monitor |-> NoMonitor]
           ELSE IF f[4].v = 1 /\ Has(f, 5, "osstr") /\ Has(f, 6, "u32")
           THEN [tag |-> tag, url |-> Str(f[2].v, f[2].n),
                 save_path |-> Str(f[3].v, f[3].n),
                 monitor |-> SomeMonitor(Str(f[5].v, f[5].n), f[6].v)]
           ELSE Undecodable
      [] tag = "MonitorJob" ->
           IF Has(f, 2, "guid") /\ Has(f, 3, "osstr") /\ Has(f, 4, "u32")
           THEN [tag |-> tag, guid |-> f[2].v,
                 monitor |-> SomeMonitor(Str(f[3].v, f[3].n), f[4].v)]
           ELSE Undecodable
      [] tag \in {"ResumeJob", "CompleteJob", "CancelJob"} ->
           IF Has(f, 2, "guid") THEN [tag |-> tag, guid |-> f[2].v]
           ELSE Undecodable
      [] tag = "SetJobPriority" ->
           IF Has(f, 2, "guid") /\ Has(f, 3, "u8") /\ f[3].v \in {0, 1}
           THEN [tag |-> tag, guid |-> f[2].v, foreground |-> (f[3].v = 1)]
           ELSE Undecodable
      [] tag = "SetUpdateInterval" ->
           IF Has(f, 2, "guid") /\ Has(f, 3, "u32")
           THEN [tag |-> tag, guid |-> f[2].v, interval_millis |-> f[3].v]
           ELSE Undecodable

\* the names of the failure variants of the command tagged `tag`
FailureNames(tag) == [i \in DOMAIN FailureVariants(tag) |-> FailureVariants(tag)[i][1]]

PayloadOf(tag, variant) ==
  FailureVariants(tag)[VariantIndex(FailureNames(tag), variant) + 1][2]

\* a serializer that numbers every failure by the variants of StartJobFailure
serialize_Result_OneTable(tag, r) ==
  IF r.ok
  THEN <<U32(0)>> \o (IF tag = "StartJob" THEN <<GuidTok(r.guid)>> ELSE <<>>)
  ELSE <<U32(1),
         U32(IF r.variant \in {FailureNames("StartJob")[i] :
                                 i \in DOMAIN FailureNames("StartJob")}
             THEN VariantIndex(FailureNames("StartJob"), r.variant)
             ELSE VariantIndex(FailureNames(tag), r.variant))>> \o
       (CASE PayloadOf(tag, r.variant) = "str" -> <<StrTok(r.msg)>>
          [] PayloadOf(tag, r.variant) = "i32" -> <<I32(r.hr)>>
          [] PayloadOf(tag, r.variant) = "unit" -> <<>>)

\* serialize(&run_xxx(&cmd)): Result is Ok = 0 or Err = 1, then the value
serialize_Result(tag, r) ==
  IF r.ok
  THEN <<U32(0)>> \o (IF tag = "StartJob" THEN <<GuidTok(r.guid)>> ELSE <<>>)
  ELSE <<U32(1), U32(VariantIndex(FailureNames(tag), r.variant))>> \o
       (CASE PayloadOf(tag, r.variant) = "str" -> <<StrTok(r.msg)>>
          [] PayloadOf(tag, r.variant) = "i32" -> <<I32(r.hr)>>
          [] PayloadOf(tag, r.variant) = "unit" -> <<>>)

UndecodableResult == [ok |-> FALSE, variant |-> "Undecodable", guid |-> 0,
                      hr |-> 0, msg |-> NoStr]

\* deserialize::<Result<T::Success, T::Failure>>(reply), T the command sent
deserialize_Result(tag, f) ==
  IF ~Has(f, 1, "u32") THEN UndecodableResult
  ELSE IF f[1].v = 0
  THEN IF tag = "StartJob"
       THEN IF Has(f, 2, "guid") THEN OkGuid(f[2].v) ELSE UndecodableResult
       ELSE OkUnit
  ELSE IF f[1].v = 1 /\ Has(f, 2, "u32") /\ f[2].v \in 0..(Len(FailureVariants(tag)) - 1)
  THEN LET v == FailureVariants(tag)[f[2].v + 1] IN
       CASE v[2] = "str" ->
              IF Has(f, 3, "str")
              THEN [ok |-> FALSE, variant |-> v[1], guid |-> 0, hr |-> 0,
                    msg |-> Str(f[3].v, f[3].n)]
              ELSE UndecodableResult
         [] v[2] = "i32" ->
              IF Has(f, 3, "i32")
              THEN [ok |-> FALSE, variant |-> v[1], guid |-> 0, hr |-> f[3].v,
                    msg |-> NoStr]
              ELSE UndecodableResult
         [] v[2] = "unit" ->
              [ok |-> FALSE, variant |-> v[1], guid |-> 0, hr |-> 0, msg |-> NoStr]
  ELSE UndecodableResult

\* ------------------------------------------ codec: one value there and back
NoCx == [stage |-> "none", tag |-> "none", frame |-> <<>>]

CodecOff == cx = NoCx

\* a command is serialized
EncodeCommand(c) ==
  /\ cx.stage \in {"none", "decoded"}
  /\ cx' = [stage |-> "encoded", kind |-> "command", tag |-> c.tag, cmd |-> c,
            frame |-> serialize_Command(c)]

\* the result of a command tagged `tag` is serialized
EncodeResult(tag, r) ==
  /\ cx.stage \in {"none", "decoded"}
  /\ cx' = [stage |-> "encoded", kind |-> "result", tag |-> tag, res |-> r,
            frame |-> serialize_Result(tag, r)]

\* the frame is deserialized as the type its reader expects
DecodeCommand ==
  /\ cx.stage = "encoded" /\ cx.kind = "command"
  /\ cx' = [cx EXCEPT !.stage = "decoded"] @@
           [cmdBack |-> deserialize_Command(cx.frame)]

DecodeResult ==
  /\ cx.stage = "encoded" /\ cx.kind = "result"
  /\ cx' = [cx EXCEPT !.stage = "decoded"] @@
           [resBack |-> deserialize_Result(cx.tag, cx.frame)]

CodecNext ==
  \/ \E c \in Commands : EncodeCommand(c)
  \/ \E i \in DOMAIN CommandTags : \E r \in Results(CommandTags[i]) :
       EncodeResult(CommandTags[i], r)
  \/ DecodeCommand
  \/ DecodeResult

\* ------------------------------- protocol: control side, worker, service
NoCommand == [tag |-> "none"]
NoCres == [status |-> "none", seq |-> 0, for |-> 0, res |-> UndecodableResult]
NoWlast == [tag |-> "none", owner |-> "none", did |-> FALSE, panicked |-> FALSE,
            res |-> UndecodableResult]

ProtoOff ==
  /\ cver = PROTOCOL_VERSION
  /\ wver = PROTOCOL_VERSION
  /\ ctlpc = "off"
  /\ wrkpc = "off"
  /\ c2w = <<>>
  /\ w2c = <<>>
  /\ ccmd = NoCommand
  /\ cres = NoCres
  /\ wcmd = NoCommand
  /\ wres = UndecodableResult
  /\ jobs = [g \in Guids \ {0} |-> "none"]
  /\ nreq = 0
  /\ nread = 0
  /\ nresp = 0
  /\ hsFail = FALSE
  /\ wlast = NoWlast
  /\ ilast = NoWlast

\* the control side's PipeServer is gone: connect or the process failed,
\* or the caller dropped it
ControlClosed == ctlpc \in {"failed", "panicked", "closed"}
\* the worker's PipeClient is gone: run_commands returned or panicked
WorkerClosed == wrkpc \in {"failed", "panicked"}

\* a worker that accepts any version byte
version_ok_Any(got, mine) == TRUE

\* ensure!(version[0] == PROTOCOL_VERSION)
version_ok(got, mine) == got = mine

\* a sender that writes whatever serialize produced
fits_Unchecked(len, max) == TRUE

\* assert!(cmd.len() <= MAX_COMMAND), assert!(len <= MAX_RESPONSE)
fits(len, max) == len <= max

\* a run_command that returns once the request is written
after_write_NoRead == "ready"

\* run_command: `pipe.write(..)?` is followed by `pipe.read(..)?`
after_write == "read"

\* a read that stays pending once the other end is closed
read_fails_Never(closed) == FALSE

\* read_pipe_impl: a read on an empty pipe whose other end is closed
\* finishes with an error, `Err(e) => Err(PipeError::Api(e))`
read_fails(closed) == closed

\* the job the service finds for a guid: "none" when it has none
Owner(g) == IF g \in DOMAIN jobs THEN jobs[g] ELSE "none"

\* connect: the pipe is created and the task started, which runs the worker
\* built with its own PROTOCOL_VERSION
ProtoStart(cv, wv) ==
  /\ ctlpc = "off"
  /\ cver' = cv
  /\ wver' = wv
  /\ ctlpc' = "connect"
  /\ wrkpc' = "open"
  /\ UNCHANGED <<c2w, w2c, ccmd, cres, wcmd, wres, jobs, nreq, nread, nresp,
                 hsFail, wlast, ilast>>

\* run_commands: PipeClient::open_duplex
WorkerOpen ==
  /\ wrkpc = "open"
  /\ wrkpc' = "hs_read"
  /\ UNCHANGED <<cver, wver, ctlpc, c2w, w2c, ccmd, cres, wcmd, wres, jobs, nreq,
                 nread, nresp, hsFail, wlast, ilast>>

\* connect: pipe.connect returns once the worker has opened the pipe
ControlConnected ==
  /\ ctlpc = "connect"
  /\ wrkpc \notin {"off", "open"}
  /\ ctlpc' = "hs_write"
  /\ UNCHANGED <<cver, wver, wrkpc, c2w, w2c, ccmd, cres, wcmd, wres, jobs, nreq,
                 nread, nresp, hsFail, wlast, ilast>>

\* connect: pipe.write(&[PROTOCOL_VERSION; 1])
ControlHsWrite ==
  /\ ctlpc = "hs_write"
  /\ IF WorkerClosed
     THEN ctlpc' = "failed" /\ UNCHANGED c2w
     ELSE /\ c2w' = Append(c2w, [frame |-> <<U8(cver)>>, seq |-> 0])
          /\ ctlpc' = "hs_read"
  /\ UNCHANGED <<cver, wver, wrkpc, w2c, ccmd, cres, wcmd, wres, jobs, nreq, nread,
                 nresp, hsFail, wlast, ilast>>

\* run_commands: the version byte is read into a one-byte buffer and checked
WorkerHsRead ==
  /\ wrkpc = "hs_read"
  /\ \/ /\ c2w # <<>>
        /\ c2w' = Tail(c2w)
        /\ LET f == Head(c2w).frame
               good == /\ FrameLen(f) = 1
                       /\ version_ok(f[1].v, wver)
           IN /\ wrkpc' = IF good THEN "hs_write" ELSE "failed"
              /\ hsFail' = (hsFail \/ ~good)
     \/ /\ c2w = <<>> /\ read_fails(ControlClosed)
        /\ wrkpc' = "failed"
        /\ UNCHANGED <<c2w, hsFail>>
  /\ UNCHANGED <<cver, wver, ctlpc, w2c, ccmd, cres, wcmd, wres, jobs, nreq, nread,
                 nresp, wlast, ilast>>

\* run_commands: control_pipe.write(&[PROTOCOL_VERSION; 1])
WorkerHsWrite ==
  /\ wrkpc = "hs_write"
  /\ IF ControlClosed
     THEN wrkpc' = "failed" /\ UNCHANGED w2c
     ELSE /\ w2c' = Append(w2c, [frame |-> <<U8(wver)>>, seq |-> 0])
          /\ wrkpc' = "loop_read"
  /\ UNCHANGED <<cver, wver, ctlpc, c2w, ccmd, cres, wcmd, wres, jobs, nreq, nread,
                 nresp, hsFail, wlast, ilast>>

\* connect: the reply is read into a one-byte buffer and checked
ControlHsRead ==
  /\ ctlpc = "hs_read"
  /\ \/ /\ w2c # <<>>
        /\ w2c' = Tail(w2c)
        /\ LET f == Head(w2c).frame
               good == /\ FrameLen(f) = 1
                       /\ version_ok(f[1].v, cver)
           IN /\ ctlpc' = IF good THEN "ready" ELSE "failed"
              /\ hsFail' = (hsFail \/ ~good)
     \/ /\ w2c = <<>> /\ read_fails(WorkerClosed)
        /\ ctlpc' = "failed"
        /\ UNCHANGED <<w2c, hsFail>>
  /\ UNCHANGED <<cver, wver, wrkpc, c2w, ccmd, cres, wcmd, wres, jobs, nreq, nread,
                 nresp, wlast, ilast>>

\* BackgroundCopyManager::find_job_by_guid: the job, whatever its name
find_job_by_guid(g) == Owner(g)

\* BackgroundCopyManager::find_job_by_guid_and_name: None on another name
find_job_by_guid_and_name(g) == IF Owner(g) = "mine" THEN "mine" ELSE "none"

\* commands that carry a job id
Keyed(c) == c.tag \in {"MonitorJob", "ResumeJob", "SetJobPriority",
                       "SetUpdateInterval", "CompleteJob", "CancelJob"}
\* operations after which the service no longer has the job
Removes(tag) == tag \in {"CompleteJob", "CancelJob"}
\* run_set_update_interval finds the job and does nothing with it
Acts(tag) == tag # "SetUpdateInterval"

\* run_command: serialize, assert the size, write; then wait for the reply
RunCommand(c) ==
  /\ ctlpc = "ready"
  /\ nreq < MaxCmds
  /\ LET f == serialize_Command(c)
     IN IF ~fits(FrameLen(f), MAX_COMMAND)
        THEN /\ ctlpc' = "panicked"
             /\ ccmd' = c
             /\ UNCHANGED <<c2w, nreq, cres>>
        ELSE IF WorkerClosed
        THEN /\ cres' = [NoCres EXCEPT !.status = "err"]
             /\ ccmd' = c
             /\ UNCHANGED <<ctlpc, c2w, nreq>>
        ELSE /\ c2w' = Append(c2w, [frame |-> f, seq |-> nreq + 1])
             /\ nreq' = nreq + 1
             /\ ccmd' = c
             /\ ctlpc' = after_write
             /\ UNCHANGED cres
  /\ UNCHANGED <<cver, wver, wrkpc, w2c, wcmd, wres, jobs, nread, nresp, hsFail,
                 wlast, ilast>>

\* run_command: pipe.read(out_buf), then deserialize as the command's result
ControlRead ==
  /\ ctlpc = "read"
  /\ \/ /\ w2c # <<>>
        /\ w2c' = Tail(w2c)
        /\ LET m == Head(w2c)
               r == deserialize_Result(ccmd.tag, m.frame)
           IN cres' = IF FrameLen(m.frame) > MAX_RESPONSE \/ r = UndecodableResult
                      THEN [NoCres EXCEPT !.status = "err", !.seq = m.seq,
                                          !.for = nreq]
                      ELSE [status |-> "ok", seq |-> m.seq, for |-> nreq,
                            res |-> r]
     \/ /\ w2c = <<>> /\ read_fails(WorkerClosed)
        /\ cres' = [NoCres EXCEPT !.status = "err", !.for = nreq]
        /\ UNCHANGED w2c
  /\ ctlpc' = "ready"
  /\ UNCHANGED <<cver, wver, wrkpc, c2w, ccmd, wcmd, wres, jobs, nreq, nread,
                 nresp, hsFail, wlast, ilast>>

\* the caller drops the client between two commands
ControlDrop ==
  /\ ctlpc = "ready"
  /\ ctlpc' = "closed"
  /\ UNCHANGED <<cver, wver, wrkpc, c2w, w2c, ccmd, cres, wcmd, wres, jobs, nreq,
                 nread, nresp, hsFail, wlast, ilast>>

\* run_commands, the loop: read one request and deserialize it
WorkerRead ==
  /\ wrkpc = "loop_read"
  /\ \/ /\ c2w # <<>>
        /\ c2w' = Tail(c2w)
        /\ LET f == Head(c2w).frame
               c == deserialize_Command(f)
           IN IF FrameLen(f) > MAX_COMMAND \/ c = Undecodable
              THEN wrkpc' = "failed" /\ UNCHANGED <<wcmd, nread>>
              ELSE wrkpc' = "dispatch" /\ wcmd' = c /\ nread' = nread + 1
     \/ /\ c2w = <<>> /\ read_fails(ControlClosed)
        /\ wrkpc' = "failed"
        /\ UNCHANGED <<c2w, wcmd, nread>>
  /\ UNCHANGED <<cver, wver, ctlpc, w2c, ccmd, cres, wres, jobs, nreq, nresp,
                 hsFail, wlast, ilast>>

\* run_start: create, add_file, resume; every error becomes Other
DispatchStart ==
  /\ wcmd.tag = "StartJob"
  /\ \/ \E g \in DOMAIN jobs :
          /\ jobs[g] = "none"
          /\ jobs' = [jobs EXCEPT ![g] = "mine"]
          /\ wres' = OkGuid(g)
          /\ wlast' = [tag |-> "StartJob", owner |-> "none", did |-> TRUE,
                       panicked |-> FALSE, res |-> OkGuid(g)]
     \/ /\ wres' = Failed("Other", "str")
        /\ wlast' = [tag |-> "StartJob", owner |-> "none", did |-> FALSE,
                     panicked |-> FALSE, res |-> Failed("Other", "str")]
        /\ UNCHANGED <<jobs>>
  /\ wrkpc' = "write"

\* run_monitor .. run_cancel: find_job_by_guid(..)?.unwrap(), the operation,
\* every error becomes Other
DispatchKeyed ==
  /\ Keyed(wcmd)
  /\ LET g == wcmd.guid
         tag == wcmd.tag
         found == find_job_by_guid(g)
     IN \/ /\ found = "none"
           /\ wrkpc' = "panicked"
           /\ wlast' = [tag |-> tag, owner |-> found, did |-> FALSE,
                        panicked |-> TRUE, res |-> UndecodableResult]
           /\ UNCHANGED <<wres, jobs>>
        \/ /\ found # "none"
           /\ wrkpc' = "write"
           /\ wres' = OkUnit
           /\ wlast' = [tag |-> tag, owner |-> found, did |-> Acts(tag),
                        panicked |-> FALSE, res |-> OkUnit]
           /\ jobs' = IF Removes(tag) THEN [jobs EXCEPT ![g] = "none"] ELSE jobs
        \/ /\ wrkpc' = "write"
           /\ wres' = Failed("Other", "str")
           /\ wlast' = [tag |-> tag, owner |-> found, did |-> FALSE,
                        panicked |-> FALSE, res |-> Failed("Other", "str")]
           /\ UNCHANGED <<jobs>>

\* run_commands, the loop: match on the command and run it
WorkerDispatch ==
  /\ wrkpc = "dispatch"
  /\ DispatchStart \/ DispatchKeyed
  /\ UNCHANGED <<cver, wver, ctlpc, c2w, w2c, ccmd, cres, wcmd, nreq, nread,
                 nresp, hsFail, ilast>>

\* run_commands, the loop: serialize the result, assert the size, write
WorkerWrite ==
  /\ wrkpc = "write"
  /\ LET f == serialize_Result(wcmd.tag, wres)
     IN IF ~fits(FrameLen(f), MAX_RESPONSE)
        THEN wrkpc' = "panicked" /\ UNCHANGED <<w2c, nresp>>
        ELSE IF ControlClosed
        THEN wrkpc' = "failed" /\ UNCHANGED <<w2c, nresp>>
        ELSE /\ w2c' = Append(w2c, [frame |-> f, seq |-> nread])
             /\ nresp' = nresp + 1
             /\ wrkpc' = "loop_read"
  /\ UNCHANGED <<cver, wver, ctlpc, c2w, ccmd, cres, wcmd, wres, jobs, nreq,
                 nread, hsFail, wlast, ilast>>

\* another application's job appears in the service
OtherAppCreates(g) ==
  /\ jobs[g] = "none"
  /\ jobs' = [jobs EXCEPT ![g] = "foreign"]
  /\ UNCHANGED <<cver, wver, ctlpc, wrkpc, c2w, w2c, ccmd, cres, wcmd, wres, nreq,
                 nread, nresp, hsFail, wlast, ilast>>

\* InProcessClient::new: the client works in this process, without a worker
InProcessNew ==
  /\ ctlpc = "off"
  /\ ctlpc' = "in_process"
  /\ UNCHANGED <<cver, wver, wrkpc, c2w, w2c, ccmd, cres, wcmd, wres, jobs, nreq,
                 nread, nresp, hsFail, wlast, ilast>>

\* InProcessClient::start_job: create_job(&self.job_name) and the rest
InProcessStart ==
  /\ ctlpc = "in_process"
  /\ \/ \E g \in DOMAIN jobs :
          /\ jobs[g] = "none"
          /\ jobs' = [jobs EXCEPT ![g] = "mine"]
          /\ ilast' = [tag |-> "StartJob", owner |-> "none", did |-> TRUE,
                       panicked |-> FALSE, res |-> OkGuid(g)]
     \/ /\ ilast' = [tag |-> "StartJob", owner |-> "none", did |-> FALSE,
                     panicked |-> FALSE, res |-> Failed("Create", "i32")]
        /\ UNCHANGED jobs
  /\ UNCHANGED <<cver, wver, ctlpc, wrkpc, c2w, w2c, ccmd, cres, wcmd, wres, nreq,
                 nread, nresp, hsFail, wlast>>

\* InProcessClient::monitor_job .. cancel_job: get_job!, then the operation
InProcess(tag, g) ==
  /\ ctlpc = "in_process"
  /\ LET found == find_job_by_guid_and_name(g)
     IN \/ /\ found = "none"
           /\ ilast' = [tag |-> tag, owner |-> Owner(g), did |-> FALSE,
                        panicked |-> FALSE, res |-> Failed("NotFound", "unit")]
           /\ UNCHANGED <<jobs>>
        \/ /\ found # "none"
           /\ ilast' = [tag |-> tag, owner |-> Owner(g), did |-> TRUE,
                        panicked |-> FALSE, res |-> OkUnit]
           /\ jobs' = IF Removes(tag) THEN [jobs EXCEPT ![g] = "none"] ELSE jobs
        \/ /\ ilast' = [tag |-> tag, owner |-> Owner(g), did |-> FALSE,
                        panicked |-> FALSE, res |-> Failed("GetJob", "i32")]
           /\ UNCHANGED <<jobs>>
  /\ UNCHANGED <<cver, wver, ctlpc, wrkpc, c2w, w2c, ccmd, cres, wcmd, wres, nreq,
                 nread, nresp, hsFail, wlast>>

ProtoNext ==
  \/ \E cv \in {0, 1}, wv \in {0, 1} : ProtoStart(cv, wv)
  \/ WorkerOpen
  \/ ControlConnected
  \/ ControlHsWrite
  \/ WorkerHsRead
  \/ WorkerHsWrite
  \/ ControlHsRead
  \/ \E c \in Commands : RunCommand(c)
  \/ ControlRead
  \/ ControlDrop
  \/ WorkerRead
  \/ WorkerDispatch
  \/ WorkerWrite
  \/ \E g \in DOMAIN jobs : OtherAppCreates(g)
  \/ InProcessNew
  \/ InProcessStart
  \/ \E tag \in {"MonitorJob", "SuspendJob", "ResumeJob", "SetJobPriority",
                 "CompleteJob", "CancelJob"}, g \in Guids : InProcess(tag, g)

\* ---------------------------- monitor: InProcessMonitor::get_status in time
\* Instants and Durations are whole numbers of one unit; None is -1
None == 0 - 1
\* the interval_millis values and the get_status timeouts that are tried
Intervals == {1, 3}
StatusTimeouts == {0, 2}
\* the job's remote name, before and after a redirect; 0 is no url
JobUrls == {1, 2}

\* the call under way: where it stands, its start and timeout, the wake time
\* it computed, and what has happened to it (it waited, the interval was
\* changed under it, where a stop found it, what woke it last)
NoGcall == [pc |-> "idle", started |-> 0, timeout |-> 0, wait_until |-> None,
            waited |-> FALSE, shutAtStart |-> FALSE, ivchg |-> FALSE,
            stopAt |-> "none", woke |-> "none"]
\* the outcome of the last call: the value, the url the snapshot carries, the
\* job's url and the url last reported before, why it fetched, and the facts
\* of the call at the moment it decided (over: more than the timeout had
\* elapsed; spaced: more than one interval since the last snapshot; early:
\* the wake time had not passed; ivlt: interval shorter than the timeout)
NoGout == [val |-> "none", url |-> 0, cur |-> 0, prev |-> 0, why |-> "none",
           waited |-> FALSE, shutAtStart |-> FALSE, ivchg |-> FALSE,
           stopAt |-> "none", over |-> FALSE, spaced |-> FALSE,
           early |-> FALSE, ivlt |-> FALSE, fail |-> "none", notes |-> "none"]
\* the steps of a fetch that can fail: looking the job up, reading its status,
\* reading the remote name of its first file
FetchSteps == {"job", "status", "url"}
\* calls begun, calls returned, whether a fetch has failed, and the
\* notifications delivered since the last fetch began: none, one or many
NoHist == [calls |-> 0, outs |-> 0, fetchErr |-> FALSE, notes |-> "none"]
OneMore(n) == IF n = "none" THEN "one" ELSE "many"

\* the worker's monitor thread: where it stands, the delay it was given, when
\* recv_timeout runs out, how many statuses it sent, and about the last one:
\* whether a recv came before it, whether a send or the timer ended that
\* recv, and whether a whole delay had passed since the status before
NoWmon == [pc |-> "off", delay |-> 0, deadline |-> 0, sent |-> 0,
           recvd |-> FALSE, by |-> "none", spaced |-> FALSE, last |-> None]

StatusOff ==
  /\ clock = 0
  /\ bmon = "none"
  /\ imv = [interval_millis |-> 0, notified |-> FALSE, shutdown |-> FALSE]
  /\ last_status_time = None
  /\ last_url = 0
  /\ gcall = NoGcall
  /\ gout = NoGout
  /\ bjob = [url |-> 1, priority |-> "normal"]
  /\ reportedUrl = 0
  /\ hist = NoHist
  /\ mslot = "Some"
  /\ pout = NoRet
  /\ wmon = NoWmon

Min(a, b) == IF a <= b THEN a ELSE b

\* a get_status that never looks at the shutdown flag
is_shutdown_Ignored(s) == FALSE

\* `if s.shutdown`
is_shutdown(s) == s.shutdown

\* a timeout test that never fires
timed_out_Never(start, now, timeout) == FALSE

\* `started.elapsed() > timeout`
timed_out(start, now, timeout) == now - start > timeout

\* a wake time that leaves the interval out
wait_until_of_NoInterval(last, interval, start, timeout) ==
  IF last = None THEN None ELSE Min(last, start + timeout)

\* `self.last_status_time.map(|t| cmp::min(t + interval, started + timeout))`
wait_until_of(last, interval, start, timeout) ==
  IF last = None THEN None ELSE Min(last + interval, start + timeout)

\* a test that does not look at the notified flag
fetch_now_Unnotified(s, wu, now) == wu = None \/ wu < now

\* `if s.notified || wait_until.is_none() || wait_until.unwrap() < now`
fetch_now(s, wu, now) == s.notified \/ wu = None \/ wu < now

\* why the call fetches, for the record
Why(s, wu) == IF s.notified THEN "notified" ELSE IF wu = None THEN "first" ELSE "due"

\* a report that carries the url every time
url_report_Always(last, url) == url

\* `if self.last_url.is_some() && last_url == url { None } else { Some(url) }`
url_report(last, url) == IF last # 0 /\ last = url THEN 0 ELSE url

\* a stop that wakes the waiter without setting the flag
stop_flag_Unset(s) == s

\* `sender.1.lock().unwrap().shutdown = true`
stop_flag(s) == [s EXCEPT !.shutdown = TRUE]

\* an error path that leaves the monitor connected
on_error_Keep(s) == s

\* `.or_else(|e| { self.vars.1.lock().unwrap().shutdown = true; Err(e) })`
on_error(s) == [s EXCEPT !.shutdown = TRUE]

\* start_job: `job.set_priority(BitsJobPriority::Foreground)?`
start_priority(p) == "foreground"

\* a wakeup taken for a notification: straight to the fetch
Woken_NoRecheck(c, by) ==
  IF c.pc = "wait" THEN [c EXCEPT !.pc = "fetch", !.woke = by] ELSE c

\* a handler that wakes the waiters without setting the flag
transferred_cb_NoFlag(s) == s

\* transferred_cb and error_cb, under the lock: `vars.notified = true`
transferred_cb(s) == [s EXCEPT !.notified = TRUE]

\* an interval change that passes for a notification
set_interval_Notifying(s, iv) == [s EXCEPT !.interval_millis = iv, !.notified = TRUE]

\* set_update_interval, under the lock: `s.interval_millis = interval_millis`
set_interval(s, iv) == [s EXCEPT !.interval_millis = iv]

\* the error a failed step of the fetch gives: `self.job()` and
\* `job.get_first_file()?.get_remote_name()?` pass their error on, converted;
\* `job.get_status().map_err(|_| Error::NotConnected)?`
fetch_error(fail) == IF fail = "status" THEN "NotConnected" ELSE "Error"

\* Condvar::notify_all, or the end of wait_timeout: the thread goes back to
\* the top of the loop
Woken(c, by) ==
  IF c.pc = "wait" THEN [c EXCEPT !.pc = "loop", !.woke = by] ELSE c

\* InProcessClient::start_job: the job is created, its priority raised, the
\* monitor built with notified and shutdown false and no last status
StatusStart(iv) ==
  /\ bmon = "none"
  /\ bmon' = "alive"
  /\ imv' = [interval_millis |-> iv, notified |-> FALSE, shutdown |-> FALSE]
  /\ bjob' = [bjob EXCEPT !.priority = start_priority(@)]
  /\ UNCHANGED <<clock, last_status_time, last_url, gcall, gout, reportedUrl,
                 hist, mslot, pout, wmon>>

\* time passes between calls, during a fetch, and during the wait up to the
\* moment after its timer runs out
Tick ==
  /\ clock < MaxTime
  /\ \/ gcall.pc \in {"idle", "fetch"}
     \/ gcall.pc = "wait" /\ clock <= gcall.wait_until
  /\ wmon.pc = "recv" => clock < wmon.deadline
  /\ clock' = clock + 1
  /\ UNCHANGED <<bmon, imv, last_status_time, last_url, gcall, gout, bjob,
                 reportedUrl, hist, mslot, pout, wmon>>

\* get_status is called: `let started = Instant::now()` and the lock
GetStatusBegin(to) ==
  /\ bmon = "alive"
  /\ gcall.pc = "idle"
  /\ hist.calls < MaxCalls
  /\ gcall' = [NoGcall EXCEPT !.pc = "loop", !.started = clock, !.timeout = to,
                              !.shutAtStart = imv.shutdown]
  /\ gout' = NoGout
  /\ hist' = [hist EXCEPT !.calls = @ + 1]
  /\ UNCHANGED <<clock, bmon, imv, last_status_time, last_url, bjob,
                 reportedUrl, mslot, pout, wmon>>

\* one pass of the loop, under the lock: shutdown, then the timeout, then
\* fetch now or wait
GetStatusLoop ==
  /\ gcall.pc = "loop"
  /\ LET wu == wait_until_of(last_status_time, imv.interval_millis,
                             gcall.started, gcall.timeout)
         base == [NoGout EXCEPT
                    !.waited = gcall.waited,
                    !.shutAtStart = gcall.shutAtStart,
                    !.ivchg = gcall.ivchg,
                    !.stopAt = gcall.stopAt,
                    !.over = (clock - gcall.started > gcall.timeout),
                    !.spaced = (last_status_time # None /\
                                clock > last_status_time + imv.interval_millis),
                    !.early = (last_status_time # None /\
                               clock <= last_status_time + imv.interval_millis /\
                               clock <= gcall.started + gcall.timeout),
                    !.ivlt = (imv.interval_millis < gcall.timeout)]
     IN IF is_shutdown(imv)
        THEN /\ gout' = [base EXCEPT !.val = "NotConnected"]
             /\ gcall' = NoGcall
             /\ hist' = [hist EXCEPT !.outs = @ + 1]
             /\ UNCHANGED <<imv, last_status_time>>
        ELSE IF timed_out(gcall.started, clock, gcall.timeout)
        THEN /\ gout' = [base EXCEPT !.val = "Timeout"]
             /\ gcall' = NoGcall
             /\ imv' = on_error(imv)
             /\ hist' = [hist EXCEPT !.outs = @ + 1]
             /\ UNCHANGED last_status_time
        ELSE IF fetch_now(imv, wu, clock)
        THEN /\ imv' = [imv EXCEPT !.notified = FALSE]
             /\ last_status_time' = clock
             /\ gcall' = [gcall EXCEPT !.pc = "fetch", !.wait_until = wu]
             /\ gout' = [base EXCEPT !.val = "fetching", !.why = Why(imv, wu),
                                     !.notes = hist.notes]
             /\ hist' = [hist EXCEPT !.notes = "none"]
        ELSE /\ gcall' = [gcall EXCEPT !.pc = "wait", !.wait_until = wu,
                                       !.waited = TRUE]
             /\ UNCHANGED <<imv, last_status_time, gout, hist>>
  /\ UNCHANGED <<clock, bmon, last_url, bjob, reportedUrl, mslot,
                 pout, wmon>>

\* wait_timeout returns because its time is up
WaitElapsed ==
  /\ gcall.pc = "wait"
  /\ clock >= gcall.wait_until
  /\ gcall' = Woken(gcall, "timer")
  /\ UNCHANGED <<clock, bmon, imv, last_status_time, last_url, gout, bjob,
                 reportedUrl, hist, mslot, pout, wmon>>

\* wait_timeout returns for no reason
WaitSpurious ==
  /\ gcall.pc = "wait"
  /\ gcall' = Woken(gcall, "spurious")
  /\ UNCHANGED <<clock, bmon, imv, last_status_time, last_url, gout, bjob,
                 reportedUrl, hist, mslot, pout, wmon>>

\* transferred_cb / error_cb: `vars.notified = true; control.0.notify_all()`
Notify ==
  /\ bmon = "alive"
  /\ imv' = transferred_cb(imv)
  /\ gcall' = Woken(gcall, "notify")
  /\ hist' = [hist EXCEPT !.notes = OneMore(@)]
  /\ UNCHANGED <<clock, bmon, last_status_time, last_url, gout, bjob,
                 reportedUrl, mslot, pout, wmon>>

\* InProcessClient::set_update_interval
SetUpdateInterval(iv) ==
  /\ bmon = "alive"
  /\ iv # imv.interval_millis
  /\ imv' = set_interval(imv, iv)
  /\ gcall' = Woken([gcall EXCEPT !.ivchg = (gcall.pc # "idle")], "interval")
  /\ UNCHANGED <<clock, bmon, last_status_time, last_url, gout, bjob,
                 reportedUrl, hist, mslot, pout, wmon>>

\* InProcessClient::stop_update
StopUpdate ==
  /\ bmon = "alive"
  /\ imv' = stop_flag(imv)
  /\ gcall' = Woken([gcall EXCEPT !.stopAt = IF gcall.pc = "idle" THEN "none"
                                               ELSE gcall.pc], "stop")
  /\ UNCHANGED <<clock, bmon, last_status_time, last_url, gout, bjob,
                 reportedUrl, hist, mslot, pout, wmon>>

\* the fetch ends: job(), get_status(), get_remote_name(), the JobStatus
\* with its url; any error shuts the monitor down
Fetch(fail) ==
  /\ gcall.pc = "fetch"
  /\ \/ /\ fail = "none"
        /\ hist' = [hist EXCEPT !.outs = @ + 1]
        /\ LET u == url_report(last_url, bjob.url)
          IN /\ gout' = [gout EXCEPT !.val = "Snapshot", !.url = u,
                                     !.cur = bjob.url, !.prev = reportedUrl,
                                     !.stopAt = gcall.stopAt]
             /\ last_url' = IF u # 0 THEN u ELSE last_url
             /\ reportedUrl' = IF u # 0 THEN u ELSE reportedUrl
             /\ UNCHANGED imv
     \/ /\ fail \in FetchSteps
        /\ gout' = [gout EXCEPT !.val = fetch_error(fail), !.fail = fail,
                                !.stopAt = gcall.stopAt]
        /\ imv' = on_error(imv)
        /\ hist' = [hist EXCEPT !.outs = @ + 1, !.fetchErr = TRUE]
        /\ UNCHANGED <<last_url, reportedUrl>>
  /\ gcall' = NoGcall
  /\ UNCHANGED <<clock, bmon, last_status_time, bjob, mslot, pout, wmon>>

\* the server redirects the download: the job's remote name changes
Redirect(u) ==
  /\ bmon = "alive"
  /\ u # bjob.url
  /\ bjob' = [bjob EXCEPT !.url = u]
  /\ UNCHANGED <<clock, bmon, imv, last_status_time, last_url, gcall, gout,
                 reportedUrl, hist, mslot, pout, wmon>>

\* the InProcessMonitor is dropped by its owner, between calls
StatusDrop ==
  /\ bmon = "alive"
  /\ gcall.pc = "idle"
  /\ bmon' = "dropped"
  /\ UNCHANGED <<clock, imv, last_status_time, last_url, gcall, gout, bjob,
                 reportedUrl, hist, mslot, pout, wmon>>

\* the client monitors through a pipe the worker writes to
PipeMonitorOpen ==
  /\ bmon = "none"
  /\ bmon' = "pipe"
  /\ UNCHANGED <<clock, imv, last_status_time, last_url, gcall, gout, bjob,
                 reportedUrl, hist, mslot, pout, wmon>>

\* bits_client::get_status: `monitor_pipe.read(&mut out_buf, timeout)?`, the
\* read ending as f says
PipeGetStatus(f) ==
  /\ bmon = "pipe"
  /\ LET r == IF take_ok_or(mslot) = "issue" THEN read_pipe_impl(f, 1)
              ELSE Ret("read", "NotConnected", "none", 0, 0)
     IN /\ pout' = r
        /\ mslot' = IF take_ok_or(mslot) = "issue" THEN SlotAfter(r) ELSE mslot
  /\ UNCHANGED <<clock, bmon, imv, last_status_time, last_url, gcall, gout,
                 bjob, reportedUrl, hist, wmon>>

\* `rx.recv_timeout(delay)`: a message, or the delay has passed
recv_ends(sent, now, deadline) == sent \/ now >= deadline

\* spawn_monitor: the thread is started with the monitor's interval
WmonSpawn(iv) ==
  /\ bmon = "pipe"
  /\ wmon.pc = "off"
  /\ wmon' = [NoWmon EXCEPT !.pc = "status", !.delay = iv]
  /\ UNCHANGED <<clock, bmon, imv, last_status_time, last_url, gcall, gout,
                 bjob, reportedUrl, hist, mslot, pout>>

\* the loop of the thread: job.get_status(), pipe.write(..), then into
\* rx.recv_timeout(delay)
WmonStatus ==
  /\ wmon.pc = "status"
  /\ wmon.sent < MaxCalls
  /\ wmon' = [wmon EXCEPT !.pc = "recv", !.deadline = clock + wmon.delay,
                          !.sent = @ + 1, !.last = clock,
                          !.spaced = (wmon.last # None /\
                                      clock >= wmon.last + wmon.delay)]
  /\ UNCHANGED <<clock, bmon, imv, last_status_time, last_url, gcall, gout,
                 bjob, reportedUrl, hist, mslot, pout>>

\* recv_timeout returns: the callback sent on the channel, or time is up
WmonRecv(sent) ==
  /\ wmon.pc = "recv"
  /\ recv_ends(sent, clock, wmon.deadline)
  /\ wmon' = [wmon EXCEPT !.pc = "status", !.recvd = TRUE,
                          !.by = IF sent THEN "send" ELSE "timer"]
  /\ UNCHANGED <<clock, bmon, imv, last_status_time, last_url, gcall, gout,
                 bjob, reportedUrl, hist, mslot, pout>>

StatusNext ==
  \/ \E iv \in Intervals : StatusStart(iv)
  \/ Tick
  \/ \E to \in StatusTimeouts : GetStatusBegin(to)
  \/ GetStatusLoop
  \/ WaitElapsed
  \/ WaitSpurious
  \/ Notify
  \/ \E iv \in Intervals : SetUpdateInterval(iv)
  \/ StopUpdate
  \/ \E fail \in FetchSteps \cup {"none"} : Fetch(fail)
  \/ \E u \in JobUrls : Redirect(u)
  \/ StatusDrop
  \/ PipeMonitorOpen
  \/ \E iv \in Intervals : WmonSpawn(iv)
  \/ WmonStatus
  \/ \E sent \in BOOLEAN : WmonRecv(sent)
  \/ \E f \in {[tag |-> "None"], [tag |-> "Some", ok |-> TRUE, bytes |-> 1],
               [tag |-> "Err", code |-> "ERROR_BROKEN_PIPE"]} : PipeGetStatus(f)

\* --------------------- registry: InProcessClient and its map of monitors
\* job ids the service can hand out, and the monitors the client can build
RegGuids == {1, 2}
MonitorIds == 1..MaxMonitors

NoImon == [state |-> "none", guid |-> 0, shutdown |-> FALSE]
\* the last call of the client: what it was, for which job, whether it
\* succeeded, the registry entry of the job before it and the monitor it built
NoRlast == [op |-> "none", guid |-> 0, ok |-> FALSE, prev |-> 0, built |-> 0]

RegOff ==
  /\ monitors = [g \in RegGuids |-> 0]
  /\ imon = [m \in MonitorIds |-> NoImon]
  /\ sjobs = [g \in RegGuids |-> "none"]
  /\ rlast = NoRlast

\* strong references to the ControlPair of a monitor: the monitor's own while
\* it is alive, and one per handler that is running with an upgraded handle
StrongOf(im, extra) == (IF im.state = "alive" THEN 1 ELSE 0) + extra

\* the next monitor the client builds
NextMonitorId == CHOOSE m \in MonitorIds :
                   imon[m].state = "none" /\ \A k \in 1..(m - 1) : imon[k].state # "none"

\* get_job!: the job must exist and carry the client's job name
get_job(js, g) == js[g] = "mine"

\* get_monitor_control_sender: the entry's Weak is upgraded; a dangling Weak
\* is removed from the map
get_monitor_control_sender(reg, ms, g, extra) ==
  IF reg[g] = 0
  THEN [found |-> FALSE, monitors |-> reg]
  ELSE IF upgrade(StrongOf(ms[reg[g]], extra))
  THEN [found |-> TRUE, monitors |-> reg]
  ELSE [found |-> FALSE, monitors |-> [reg EXCEPT ![g] = 0]]

\* a stop_update that finds nothing to stop
stop_update_Nothing(reg, ms, g, extra) ==
  [ok |-> FALSE, monitors |-> reg, imon |-> ms]

\* InProcessClient::stop_update: `sender.1.lock().unwrap().shutdown = true`
stop_update(reg, ms, g, extra) ==
  LET s == get_monitor_control_sender(reg, ms, g, extra)
  IN [ok |-> s.found,
      monitors |-> s.monitors,
      imon |-> IF s.found THEN [ms EXCEPT ![reg[g]].shutdown = TRUE] ELSE ms]

\* a job operation whose failure does not keep stop_update from running
reaches_stop_Always(found, opOk) == TRUE

\* complete_job / cancel_job: get_job! and the operation both end in `?`, so
\* stop_update runs only after both succeeded
reaches_stop(found, opOk) == found /\ opOk

\* InProcessClient::start_job: the job is created; a failure of its settings
\* ends the call before the monitor is built, a failure of add_file or resume
\* after it, the monitor being dropped; on success the control is inserted
RegStartJob(stage) ==
  /\ \E g \in RegGuids :
       /\ sjobs[g] = "none"
       /\ \A k \in 1..(g - 1) : sjobs[k] # "none"
       /\ sjobs' = [sjobs EXCEPT ![g] = "mine"]
       /\ IF stage = "settings"
          THEN /\ rlast' = [NoRlast EXCEPT !.op = "start", !.guid = g,
                                           !.prev = monitors[g]]
               /\ UNCHANGED <<monitors, imon>>
          ELSE /\ \E m \in MonitorIds : imon[m].state = "none"
               /\ LET m == NextMonitorId IN
                  /\ imon' = [imon EXCEPT ![m] =
                       [state |-> IF stage = "ok" THEN "alive" ELSE "dropped",
                        guid |-> g, shutdown |-> FALSE]]
                  /\ monitors' = IF stage = "ok" THEN [monitors EXCEPT ![g] = m]
                                 ELSE monitors
                  /\ rlast' = [op |-> "start", guid |-> g, ok |-> (stage = "ok"),
                               prev |-> monitors[g], built |-> m]

\* InProcessClient::monitor_job: get_job! and InProcessMonitor::new may fail
\* and end the call; otherwise any earlier monitor of the job is stopped and
\* the new control takes its place in the map
RegMonitorJob(g, built, extra) ==
  /\ \E m \in MonitorIds : imon[m].state = "none"
  /\ IF get_job(sjobs, g) /\ built
     THEN LET m == NextMonitorId
              s == stop_update(monitors, imon, g, extra)
          IN /\ monitors' = [s.monitors EXCEPT ![g] = m]
             /\ imon' = [s.imon EXCEPT ![m] =
                  [state |-> "alive", guid |-> g, shutdown |-> FALSE]]
             /\ rlast' = [op |-> "monitor", guid |-> g, ok |-> TRUE,
                          prev |-> monitors[g], built |-> m]
     ELSE /\ rlast' = [NoRlast EXCEPT !.op = "monitor", !.guid = g,
                                      !.prev = monitors[g]]
          /\ UNCHANGED <<monitors, imon>>
  /\ UNCHANGED sjobs

\* InProcessClient::stop_update called by the owner of the client
RegStopUpdate(g, extra) ==
  LET s == stop_update(monitors, imon, g, extra) IN
  /\ monitors' = s.monitors
  /\ imon' = s.imon
  /\ rlast' = [NoRlast EXCEPT !.op = "stop", !.guid = g, !.ok = s.ok,
                              !.prev = monitors[g]]
  /\ UNCHANGED sjobs

\* InProcessClient::complete_job and cancel_job
RegJobOp(op, g, opOk, extra) ==
  LET found == get_job(sjobs, g)
      s == IF reaches_stop(found, opOk)
           THEN stop_update(monitors, imon, g, extra)
           ELSE [ok |-> FALSE, monitors |-> monitors, imon |-> imon]
  IN
  /\ sjobs[g] # "none"
  /\ sjobs' = IF found /\ opOk THEN [sjobs EXCEPT ![g] = "gone"] ELSE sjobs
  /\ monitors' = s.monitors
  /\ imon' = s.imon
  /\ rlast' = [NoRlast EXCEPT !.op = op, !.guid = g, !.ok = (found /\ opOk),
                              !.prev = monitors[g]]

\* the owner of an InProcessMonitor drops it
RegDrop(m) ==
  /\ imon[m].state = "alive"
  /\ imon' = [imon EXCEPT ![m].state = "dropped"]
  /\ rlast' = [NoRlast EXCEPT !.op = "drop", !.guid = imon[m].guid,
                              !.prev = monitors[imon[m].guid]]
  /\ UNCHANGED <<monitors, sjobs>>

\* another application creates a job, or renames nothing: its job is not
\* the client's
RegOtherJob(g) ==
  /\ sjobs[g] = "none"
  /\ \A k \in 1..(g - 1) : sjobs[k] # "none"
  /\ sjobs' = [sjobs EXCEPT ![g] = "other"]
  /\ rlast' = [NoRlast EXCEPT !.op = "other", !.guid = g, !.prev = monitors[g]]
  /\ UNCHANGED <<monitors, imon>>

RegNext ==
  \/ \E stage \in {"settings", "add_file", "ok"} : RegStartJob(stage)
  \/ \E g \in RegGuids, built \in BOOLEAN, extra \in {0, 1} :
       RegMonitorJob(g, built, extra)
  \/ \E g \in RegGuids, extra \in {0, 1} : RegStopUpdate(g, extra)
  \/ \E op \in {"complete", "cancel"}, g \in RegGuids, opOk \in BOOLEAN,
        extra \in {0, 1} : RegJobOp(op, g, opOk, extra)
  \/ \E m \in MonitorIds : RegDrop(m)
  \/ \E g \in RegGuids : RegOtherJob(g)

\* ------------------- task connection: the monitor pipe of start and monitor
\* the start_job and monitor_job calls made over one task connection
Rounds == 1..MaxCmds
\* how run_start can end: an error before spawn_monitor, success, or an
\* error of the second `job.guid()?`, after spawn_monitor
StartOutcomes == {"early", "ok", "late"}
\* how run_monitor can end: an error before spawn_monitor, success, or a
\* job that is not found, where `.unwrap()` panics
MonitorOutcomes == {"early", "ok", "absent"}

TaskOff ==
  /\ tctl = "idle"
  /\ mround = 0
  /\ tcmd = "none"
  /\ mreq = "none"
  /\ mreply = "none"
  /\ mwrk = "read"
  /\ mres = "none"
  /\ mpipe = [r \in Rounds |-> "none"]
  /\ mthr = [r \in Rounds |-> "none"]
  /\ mret = [r \in Rounds |-> "none"]
  /\ mgot = [r \in Rounds |-> "none"]

\* run_start, run_monitor: spawn_monitor was reached
spawned(outcome) == outcome \in {"ok", "late"}

\* run_start, run_monitor: the reply the closure's result is mapped to
reply_of(outcome) == IF outcome = "ok" THEN "ok" ELSE "failure"

\* PipeClient::open_outbound: CreateFileW with OPEN_EXISTING finds the one
\* instance of the pipe as long as the server has it and no client has
pipe_exists(p) == p = "listening"

\* the worker process ends: its monitor threads end with it
ThreadsEnd(t) ==
  [r \in Rounds |->
     IF t[r] \in {"spawned", "found", "opened", "sending"} THEN "dead" ELSE t[r]]

\* the client's handle of a thread that ended is closed
HandlesClosed(p, t) ==
  [r \in Rounds |->
     IF t[r] \in {"opened", "sending"} /\ p[r] = "opened" THEN "hungup" ELSE p[r]]

\* start_job, monitor_job: PipeServer::new_inbound(..)?
TaskNewPipe(cmd, ok) ==
  /\ tctl = "idle"
  /\ mround < MaxCmds
  /\ mround' = mround + 1
  /\ tcmd' = cmd
  /\ IF ok
     THEN /\ mpipe' = [mpipe EXCEPT ![mround + 1] = "listening"]
          /\ tctl' = "created"
          /\ UNCHANGED mret
     ELSE /\ mret' = [mret EXCEPT ![mround + 1] = "error"]
          /\ UNCHANGED <<mpipe, tctl>>
  /\ UNCHANGED <<mreq, mreply, mwrk, mres, mthr, mgot>>

\* run_command: pipe.write(&cmd)?; on an error the monitor pipe is dropped
TaskSend ==
  /\ tctl = "created"
  /\ IF mwrk = "gone"
     THEN /\ mret' = [mret EXCEPT ![mround] = "error"]
          /\ mpipe' = [mpipe EXCEPT ![mround] = "closed"]
          /\ tctl' = "idle"
          /\ UNCHANGED mreq
     ELSE /\ mreq' = tcmd
          /\ tctl' = "sent"
          /\ UNCHANGED <<mret, mpipe>>
  /\ UNCHANGED <<mround, tcmd, mreply, mwrk, mres, mthr, mgot>>

\* run_commands: control_pipe.read gives the request
TaskWorkerRead ==
  /\ mwrk = "read"
  /\ mreq # "none"
  /\ mreq' = "none"
  /\ mwrk' = "run"
  /\ UNCHANGED <<tctl, mround, tcmd, mreply, mres, mpipe, mthr, mret, mgot>>

\* run_start, run_monitor: the job calls, spawn_monitor, the result
TaskRun(outcome) ==
  /\ mwrk = "run"
  /\ outcome \in (IF tcmd = "start" THEN StartOutcomes ELSE MonitorOutcomes)
  /\ IF outcome = "absent"
     THEN /\ mwrk' = "gone"
          /\ mthr' = ThreadsEnd(mthr)
          /\ mpipe' = HandlesClosed(mpipe, mthr)
          /\ UNCHANGED mres
     ELSE /\ mwrk' = "write"
          /\ mres' = reply_of(outcome)
          /\ mthr' = IF spawned(outcome)
                     THEN [mthr EXCEPT ![mround] = "spawned"]
                     ELSE mthr
          /\ UNCHANGED mpipe
  /\ UNCHANGED <<tctl, mround, tcmd, mreq, mreply, mret, mgot>>

\* run_commands: control_pipe.write(&mut serialized_response)
TaskReply ==
  /\ mwrk = "write"
  /\ mreply' = mres
  /\ mwrk' = "read"
  /\ UNCHANGED <<tctl, mround, tcmd, mreq, mres, mpipe, mthr, mret, mgot>>

\* run_command: pipe.read(out_buf)?, then `if let Ok(success) = reply`: a
\* failure reply and a read error both drop the monitor pipe
TaskControlRead ==
  /\ tctl = "sent"
  /\ mreply # "none" \/ read_fails(mwrk = "gone")
  /\ mreply' = "none"
  /\ IF mreply = "ok"
     THEN /\ tctl' = "connect"
          /\ mgot' = [mgot EXCEPT ![mround] = "ok"]
          /\ UNCHANGED <<mret, mpipe>>
     ELSE /\ tctl' = "idle"
          /\ mgot' = [mgot EXCEPT ![mround] = mreply]
          /\ mret' = [mret EXCEPT ![mround] =
                        IF mreply = "failure" THEN "failure" ELSE "error"]
          /\ mpipe' = [mpipe EXCEPT ![mround] = "closed"]
  /\ UNCHANGED <<mround, tcmd, mreq, mwrk, mres, mthr>>

\* monitor_pipe.connect(WaitTimeout::infinite())?: it returns once a client
\* has opened the pipe (ERROR_PIPE_CONNECTED counts as success), with an
\* error if that client has closed its end again
TaskConnect ==
  /\ tctl = "connect"
  /\ mpipe[mround] \in {"opened", "hungup"}
  /\ tctl' = "idle"
  /\ IF mpipe[mround] = "opened"
     THEN /\ mpipe' = [mpipe EXCEPT ![mround] = "connected"]
          /\ mret' = [mret EXCEPT ![mround] = "client"]
     ELSE /\ mpipe' = [mpipe EXCEPT ![mround] = "closed"]
          /\ mret' = [mret EXCEPT ![mround] = "error"]
  /\ UNCHANGED <<mround, tcmd, mreq, mreply, mwrk, mres, mthr, mgot>>

\* the caller drops the BitsMonitorClient it was given
TaskDropClient(r) ==
  /\ mret[r] = "client"
  /\ mpipe[r] = "connected"
  /\ mpipe' = [mpipe EXCEPT ![r] = "closed"]
  /\ UNCHANGED <<tctl, mround, tcmd, mreq, mreply, mwrk, mres, mthr, mret, mgot>>

\* spawn_monitor, the thread: init_mta, connect, find_job_by_guid, unwrapped
MonThreadFind(r, ok) ==
  /\ mthr[r] = "spawned"
  /\ mthr' = [mthr EXCEPT ![r] = IF ok THEN "found" ELSE "panicked"]
  /\ UNCHANGED <<tctl, mround, tcmd, mreq, mreply, mwrk, mres, mpipe, mret, mgot>>

\* spawn_monitor, the thread: PipeClient::open_outbound(&pipe_name).unwrap()
MonThreadOpen(r) ==
  /\ mthr[r] = "found"
  /\ IF pipe_exists(mpipe[r])
     THEN /\ mthr' = [mthr EXCEPT ![r] = "opened"]
          /\ mpipe' = [mpipe EXCEPT ![r] = "opened"]
     ELSE /\ mthr' = [mthr EXCEPT ![r] = "nopipe"]
          /\ UNCHANGED mpipe
  /\ UNCHANGED <<tctl, mround, tcmd, mreq, mreply, mwrk, mres, mret, mgot>>

\* spawn_monitor, the loop: get_status and pipe.write, both unwrapped; a
\* write to a pipe the server has closed panics
MonThreadWrite(r, ok) ==
  /\ mthr[r] \in {"opened", "sending"}
  /\ IF ok /\ mpipe[r] \in {"opened", "connected"}
     THEN /\ mthr' = [mthr EXCEPT ![r] = "sending"]
          /\ UNCHANGED mpipe
     ELSE /\ mthr' = [mthr EXCEPT ![r] = "panicked"]
          /\ mpipe' = [mpipe EXCEPT ![r] = IF @ = "opened" THEN "hungup" ELSE @]
  /\ UNCHANGED <<tctl, mround, tcmd, mreq, mreply, mwrk, mres, mret, mgot>>

TaskNext ==
  \/ \E cmd \in {"start", "monitor"}, ok \in BOOLEAN : TaskNewPipe(cmd, ok)
  \/ TaskSend
  \/ TaskWorkerRead
  \/ \E outcome \in StartOutcomes \cup MonitorOutcomes : TaskRun(outcome)
  \/ TaskReply
  \/ TaskControlRead
  \/ TaskConnect
  \/ \E r \in Rounds : TaskDropClient(r)
  \/ \E r \in Rounds, ok \in BOOLEAN : MonThreadFind(r, ok)
  \/ \E r \in Rounds : MonThreadOpen(r)
  \/ \E r \in Rounds, ok \in BOOLEAN : MonThreadWrite(r, ok)

\* ------------------------------------------------------ specifications
Init ==
  /\ PipeInit /\ AdapterOff /\ ThreadsOff /\ JobOff /\ MonitorOff /\ CodecOff
  /\ ProtoOff
  /\ StatusOff
  /\ RegOff
  /\ TaskOff
Next ==
  PipeNext /\ UNCHANGED <<adapterVars, threadVars, jobVars, monVars, codecVars,
               protoVars, statusVars, regVars, taskVars>>
Spec == Init /\ [][Next]_vars

NextAdapter ==
  AdapterNext /\ UNCHANGED <<pipeVars, threadVars, jobVars, monVars, codecVars,
               protoVars, statusVars, regVars, taskVars>>
SpecAdapter == Init /\ [][NextAdapter]_vars

NextThreads ==
  ThreadsNext /\ UNCHANGED <<pipeVars, jobVars, monVars, codecVars,
               protoVars, statusVars, regVars, taskVars>>
SpecThreads == Init /\ [][NextThreads]_vars

NextJob ==
  JobNext /\ UNCHANGED <<pipeVars, adapterVars, threadVars, monVars, codecVars,
               protoVars, statusVars, regVars, taskVars>>
SpecJob == Init /\ [][NextJob]_vars

NextMonitor ==
  MonitorNext /\ UNCHANGED <<pipeVars, adapterVars, threadVars, jobVars, codecVars,
               protoVars, statusVars, regVars, taskVars>>
SpecMonitor == Init /\ [][NextMonitor]_vars

NextCodec ==
  CodecNext /\ UNCHANGED <<pipeVars, adapterVars, threadVars, jobVars, monVars,
               protoVars, statusVars, regVars, taskVars>>
SpecCodec == Init /\ [][NextCodec]_vars

NextProto ==
  ProtoNext /\ UNCHANGED <<pipeVars, adapterVars, threadVars, jobVars, monVars,
                           codecVars, statusVars, regVars, taskVars>>
SpecProto == Init /\ [][NextProto]_vars

\* the steps of connect and of run_commands up to the loop: both run on
\* threads of their own and each step is taken once it can be
HandshakeStep ==
  /\ \/ WorkerOpen
     \/ ControlConnected
     \/ ControlHsWrite
     \/ WorkerHsRead
     \/ WorkerHsWrite
     \/ ControlHsRead
  /\ UNCHANGED <<pipeVars, adapterVars, threadVars, jobVars, monVars, codecVars,
                 statusVars, regVars, taskVars>>
SpecProtoLive == SpecProto /\ WF_vars(HandshakeStep)

NextStatus ==
  StatusNext /\ UNCHANGED <<pipeVars, adapterVars, threadVars, jobVars, monVars,
                            codecVars, protoVars, regVars, taskVars>>
SpecStatus == Init /\ [][NextStatus]_vars

NextRegistry ==
  RegNext /\ UNCHANGED <<pipeVars, adapterVars, threadVars, jobVars, monVars,
                         codecVars, protoVars, statusVars, taskVars>>
SpecRegistry == Init /\ [][NextRegistry]_vars

NextTask ==
  TaskNext /\ UNCHANGED <<pipeVars, adapterVars, threadVars, jobVars, monVars,
                          codecVars, protoVars, statusVars, regVars>>
SpecTask == Init /\ [][NextTask]_vars

\* ------------------------------------------------ claims: pipe transport
S == "server"

\* the server's last call was a read or write that returned Timeout
TimedOutRW ==
  /\ pc[S] = "idle"
  /\ ret[S].call \in {"read", "write"}
  /\ ret[S].val = "Timeout"

\* C1: a PipeServer read or write whose wait expires returns Timeout and
\* leaves the slot empty; from then on, until a connect is called, the slot
\* stays empty and every read or write returns NotConnected.
C1_TimeoutDisconnects ==
  [][ /\ (/\ pc[S] = "finished" /\ pc'[S] = "idle"
          /\ call[S].kind \in {"read", "write"} /\ fin[S].tag = "None")
         => (ret'[S].val = "Timeout" /\ ovl'[S] = "None")
      /\ TimedOutRW' => ovl'[S] = "None"
      /\ (TimedOutRW /\ call'[S].kind # "connect" /\ ret'[S].call # "connect")
         => /\ ovl'[S] = "None"
            /\ call'[S] = NoCall
            /\ (ret'[S] # ret[S] /\ ret'[S].call \in {"read", "write"})
               => ret'[S].val = "NotConnected" ]_vars

\* a read timed out on a pipe whose client is still attached
C1_Witness ==
  /\ TimedOutRW /\ ret[S].call = "read"
  /\ ovl[S] = "None" /\ inst = "connected"

\* C2: once a call has returned, the OS has no operation of that endpoint in
\* flight, and while no call is in progress the caller's buffer is not
\* written, whatever the peer sends.
C2_NoLateBufferWrite ==
  [][ \A e \in Endpoints :
        /\ pc'[e] = "idle" => os_pending'[e] = <<>>
        /\ (pc[e] = "idle" /\ pc'[e] = "idle" /\ Exists(e)')
           => buf'[e] = buf[e] ]_vars

\* a read timed out, the peer wrote afterwards, the buffer still holds the fill
C2_Witness ==
  /\ TimedOutRW /\ ret[S].call = "read"
  /\ buf[S] = FillBuf(Len(buf[S])) /\ Len(buf[S]) = MaxCap
  /\ Len(q[S]) = 2

\* C3: an endpoint has at most one overlapped operation in flight; while it
\* has one, and during every connect, read or write, its slot is empty.
C3_OneOperation ==
  \A e \in Endpoints :
    /\ Len(os_pending[e]) <= 1
    /\ os_pending[e] # <<>> => pc[e] \in {"waiting", "dropping"}
    /\ pc[e] # "idle" => ovl[e] = "None"

\* both endpoints have an operation pending at the same time
C3_Witness ==
  /\ Len(os_pending[S]) = 1 /\ os_pending[S][1].kind = "read"
  /\ Len(os_pending["client"]) = 1

\* s is Payload(k1), Payload(k2), ... with from <= k1 < k2 < ...
RECURSIVE IncreasingPayloads(_, _)
IncreasingPayloads(s, from) ==
  \/ s = <<>>
  \/ \E k \in from..MaxWrites :
       Head(s) = Payload(k) /\ IncreasingPayloads(Tail(s), k + 1)

\* C4: the server's successful reads return whole client messages in the
\* order written, never a merge of two or a part of one (unless a message was
\* cut by a short write or a too small buffer); when moreover nothing was
\* discarded, the i-th read returns exactly the i-th message written.
C4_MessageMode ==
  /\ lossy # "cut" => IncreasingPayloads(rcvd, 1)
  /\ lossy = "no" => /\ Len(rcvd) <= nsent
                     /\ \A i \in DOMAIN rcvd : rcvd[i] = Payload(i)

\* two messages of different sizes were written and read back one by one
C4_Witness ==
  /\ lossy = "no"
  /\ rcvd = <<Payload(1), Payload(2)>>

\* C5: on a PipeServer whose slot is empty no read or write is started, a
\* read or write returns NotConnected, and that call issues no I/O and
\* leaves the endpoint and the pipe as they were.
C5_NotConnected ==
  [][ (pc[S] = "idle" /\ ovl[S] = "None")
      => /\ call'[S].kind \notin {"read", "write"}
         /\ (ret'[S] # ret[S] /\ ret'[S].call \in {"read", "write"})
            => /\ ret'[S].val = "NotConnected"
               /\ ovl'[S] = "None" /\ pc'[S] = "idle"
               /\ UNCHANGED <<os_pending, issue, q, inst, cli, buf>> ]_vars

\* a read was refused although a client is attached and data is waiting
C5_Witness ==
  /\ pc[S] = "idle" /\ ovl[S] = "None"
  /\ ret[S].call = "read" /\ ret[S].val = "NotConnected"
  /\ inst = "connected" /\ q[S] # <<>>

\* C6: a PipeServer connect whose wait expires returns Timeout and leaves
\* the slot empty (is_connected is false); the witness shows a later connect
\* on the same endpoint succeeding.
C6_ConnectTimeout ==
  [][ /\ (/\ pc[S] = "finished" /\ pc'[S] = "idle"
          /\ call[S].kind = "connect" /\ fin[S].tag = "None")
         => (ret'[S].val = "Timeout" /\ ovl'[S] = "None")
      /\ (pc'[S] = "idle" /\ ret'[S].call = "connect" /\ ret'[S].val = "Timeout")
         => ~is_connected' ]_vars

\* a connect succeeded after an earlier connect had timed out
C6_Witness ==
  /\ hadTimeout /\ is_connected
  /\ pc[S] = "idle" /\ ret[S].call = "connect" /\ ret[S].val = "Ok"

\* C7: between calls, is_connected() equals the state the results of the
\* calls imply: true after a successful connect and as long as every read
\* and write since succeeded and disconnect was not called.
C7_IsConnected ==
  pc[S] = "idle" => (is_connected <=> expConn)

\* connected after a successful read
C7_Witness ==
  /\ pc[S] = "idle" /\ is_connected /\ expConn
  /\ ret[S].call = "read" /\ ret[S].val = "Ok"

\* C8: a write that completes with fewer bytes than the buffer returns
\* WriteCount(expected, actual) and leaves the slot empty.
C8_ShortWrite ==
  [][ \A e \in Endpoints :
        (/\ pc[e] = "finished" /\ pc'[e] = "idle"
         /\ call[e].kind = "write"
         /\ fin[e].tag = "Some" /\ fin[e].ok
         /\ fin[e].bytes # Len(call[e].data))
        => /\ ret'[e].val = "WriteCount"
           /\ ret'[e].n = Len(call[e].data)
           /\ ret'[e].m = fin[e].bytes
           /\ ovl'[e] = "None" ]_vars

\* the server's two-byte write was accepted for one byte
C8_Witness ==
  /\ pc[S] = "idle" /\ ret[S].val = "WriteCount"
  /\ ret[S].n = 2 /\ ret[S].m = 1
  /\ ~is_connected

\* C9: an issued operation is Pending exactly when the OS call returned zero
\* with ERROR_IO_PENDING and Finished otherwise; a call that returned non-zero,
\* and a connect that found ERROR_PIPE_CONNECTED, is a success; no failure
\* that is reported carries ERROR_IO_PENDING or ERROR_IO_INCOMPLETE.
C9_PendingOrFinished ==
  \A e \in Endpoints :
    /\ issue[e].t # "none" =>
         /\ issue[e].cls.t \in {"Pending", "Finished"}
         /\ issue[e].cls.t = "Pending"
              <=> (issue[e].result = 0 /\ issue[e].last_error = "ERROR_IO_PENDING")
         /\ (\/ issue[e].result # 0
             \/ issue[e].t = "connect" /\ issue[e].last_error = "ERROR_PIPE_CONNECTED")
            => (issue[e].cls.t = "Finished" /\ issue[e].cls.ok)
         /\ (issue[e].cls.t = "Finished" /\ ~issue[e].cls.ok)
            => issue[e].cls.code \notin {"ERROR_IO_PENDING", "ERROR_IO_INCOMPLETE"}
    /\ fin[e].tag \in {"Some", "Err"}
         => fin[e].code \notin {"ERROR_IO_PENDING", "ERROR_IO_INCOMPLETE"}
    /\ fin[e].tag # "panic"

\* the server called connect after the client had attached
C9_Witness ==
  /\ issue[S].t = "connect" /\ issue[S].last_error = "ERROR_PIPE_CONNECTED"
  /\ fin[S].tag = "Some" /\ fin[S].ok

\* ---------------------------------------------- claims: notification adapter
\* no thread is between the decrement to zero and the drop
Quiescent == \A h \in Holders : tpc[h] # "destroy"

\* C10: the adapter is dropped by the Release that takes the count to zero
\* and by no other: it is alive with count N - M after N acquisitions and
\* M < N releases, it is freed exactly once after N acquisitions and N
\* releases, it is never touched once freed, and a freed adapter has no
\* holder left to invoke a handler.
C10_RefcountExact ==
  /\ destroys <= 1
  /\ ~uaf
  /\ acq > rel => (mem = "alive" /\ rc = acq - rel /\ destroys = 0)
  /\ mem = "freed" => (acq = rel /\ destroys = 1 /\ \A h \in Holders : held[h] = 0)
  /\ (mem # "none" /\ acq = rel /\ Quiescent) => mem = "freed"

\* three acquisitions and three releases later the adapter is gone
C10_Witness ==
  /\ mem = "freed" /\ destroys = 1
  /\ acq = 3 /\ rel = 3
  /\ hr \in {"S_OK", "E_HANDLER", "E_FAIL"}

\* every holder is outside addref and release
ThreadsIdle == \A h \in Holders : tpc[h] = "idle"

\* C11: whatever the interleaving of addref and release on several threads,
\* no update of the count is lost (between calls the count is acquisitions
\* minus releases), the adapter is dropped exactly once, by the release that
\* brings the count to zero, and no thread touches it after the drop.
C11_ConcurrentCount ==
  /\ destroys <= 1
  /\ ~uaf
  /\ (ThreadsIdle /\ mem = "alive") => (rc = acq - rel /\ rc > 0)
  /\ (ThreadsIdle /\ mem # "none" /\ acq = rel) => (mem = "freed" /\ destroys = 1)
  /\ mem = "freed" => (acq = rel /\ \A h \in Holders : held[h] = 0)
  /\ mtx # "free" => tpc[mtx] \in {"addref_locked", "release_locked"}

\* one thread holds the guard inside addref while two others wait for it,
\* one of them in release
C11_Witness ==
  /\ tpc["bits1"] = "addref_locked" /\ mtx = "bits1"
  /\ tpc["bits2"] = "release_lock"
  /\ tpc["registrant"] = "addref_lock"

\* after concurrent calls the last release dropped the adapter
C11_WitnessDropped ==
  /\ mem = "freed" /\ destroys = 1 /\ acq = MaxAcq /\ rel = MaxAcq /\ ThreadsIdle

\* C12: for each event kind the status handed back to the service is S_OK
\* when no handler is installed or the handler returned Ok, the handler's
\* own code when it returned Err, and E_FAIL when it panicked; a panic never
\* leaves the stub.
C12_StubStatus ==
  ev # "none" =>
    /\ hr # "unwind"
    /\ cbs[ev] \in {"none", "ok"} => hr = "S_OK"
    /\ cbs[ev] = "fail" => hr = "E_HANDLER"
    /\ cbs[ev] = "panic" => hr = "E_FAIL"

\* the error handler panicked, the transfer handler is absent, the
\* modification handler fails: the error event came back as E_FAIL
C12_Witness ==
  /\ ev = "error" /\ hr = "E_FAIL"
  /\ cbs = [k \in Kinds |-> CASE k = "error" -> "panic"
                              [] k = "transferred" -> "none"
                              [] k = "modification" -> "fail"]

\* ------------------------------------------------- claims: adapters of a job
\* C13: a job has at most one registered adapter; a replaced adapter is
\* released by the service and, once nobody is inside a call on it, dropped;
\* a dropped adapter has a count of zero, is registered nowhere, and neither
\* its handlers nor its count are used again.
C13_OneAdapterPerJob ==
  /\ Cardinality(notify) <= 1
  /\ ~late
  /\ \A a \in Adapters :
       /\ jmem[a] = "freed" => (jrc[a] = 0 /\ a \notin notify /\ a # svc /\ a # rega)
       /\ (a \in wasReg /\ a \notin notify /\ a \notin replaced /\ a # svc /\ a # rega)
          => jmem[a] = "freed"
       /\ (a \in notify /\ a # rega) => (jmem[a] = "alive" /\ jrc[a] >= 1)

\* adapter 1 served an event, was replaced by adapter 2 and dropped; adapter
\* 2 is registered and has served an event too
C13_Witness ==
  /\ jmem[1] = "freed" /\ 1 \in invd
  /\ notify = {2} /\ 2 \in invd
  /\ regpc = "idle" /\ svc = 0

\* ------------------------------------------- claims: notification handlers
\* C14 as stated: a handler invoked after its monitor was destroyed returns
\* failure and touches no monitor state; one invoked while the monitor is
\* alive sets notified, wakes the waiters and returns success.
C14_Stated ==
  \A t \in HandlerThreads :
    /\ (hret[t].val \notin {"none", "running"} /\ hret[t].monGone)
       => (hret[t].val = "E_FAIL" /\ ~hret[t].wrote)
    /\ (hret[t].val \notin {"none", "running"} /\ ~hret[t].monGone)
       => (hret[t].val = "S_OK" /\ hret[t].wrote /\ hret[t].woke)

\* C14 amended: a handler invoked after its monitor was destroyed, when no
\* other thread still holds an upgraded handle to the monitor's state,
\* returns failure and touches no monitor state; no handler ever touches
\* state that was freed; a handler invoked while the monitor is alive sets
\* notified, wakes the waiters and returns success.
C14_OwnerGone ==
  /\ ~badTouch
  /\ (strong > 0) <=> (vmem = "alive")
  /\ \A t \in HandlerThreads :
       /\ (hret[t].val \notin {"none", "running"} /\ hret[t].monGone /\ ~hret[t].others)
          => (hret[t].val = "E_FAIL" /\ ~hret[t].wrote)
       /\ (hret[t].val \notin {"none", "running"} /\ ~hret[t].monGone)
          => (hret[t].val = "S_OK" /\ hret[t].wrote /\ hret[t].woke)

\* the monitor is gone and its state freed: the error handler failed without
\* touching anything, after the transfer handler had succeeded earlier
C14_Witness ==
  /\ mon = "dropped" /\ vmem = "freed"
  /\ hret["error"].val = "E_FAIL" /\ hret["error"].monGone
  /\ hret["transferred"].val = "S_OK" /\ ~hret["transferred"].monGone

\* ------------------------------------------------- claims: the protocol
\* C20: deserializing what serialize produced gives back the value: every
\* command is decoded as the command that was sent, and every typed result
\* (the success value and each failure variant of each command) is decoded
\* by the caller, as the result type of the command it sent, as an equal
\* value.
C20_RoundTrip ==
  cx.stage = "decoded" =>
    /\ cx.kind = "command" => cx.cmdBack = cx.cmd
    /\ cx.kind = "result" => cx.resBack = cx.res

\* the start request with a monitor came back as sent
C20_Witness ==
  /\ cx.stage = "decoded" /\ cx.kind = "command"
  /\ cx.cmd.tag = "StartJob" /\ cx.cmd.monitor.some
  /\ cx.cmdBack = cx.cmd
  /\ Len(cx.frame) = 6

\* the NotFound failure of a cancel came back as sent
C20_WitnessFailure ==
  /\ cx.stage = "decoded" /\ cx.kind = "result" /\ cx.tag = "CancelJob"
  /\ cx.res = Failed("NotFound", "unit")
  /\ cx.resBack = cx.res

\* ------------------------------------------------------------------ C15
InHandshake(at) == at \in {"connect", "open", "hs_write", "hs_read"}
Dispatched == nread > 0 \/ wlast.tag # "none"

\* C15: commands are exchanged only after a handshake in which each side's
\* version byte equals the other's.  With different versions no command is
\* ever dispatched, neither side gets past the handshake other than by
\* failing, and both sides do end failed; with equal versions no version
\* check fails, and both sides finish the handshake with the worker in its
\* command loop.
C15_Handshake ==
  /\ [](cver # wver =>
          /\ ~Dispatched
          /\ nreq = 0
          /\ ctlpc \in {"off", "in_process", "failed"} \/ InHandshake(ctlpc)
          /\ wrkpc = "off" \/ InHandshake(wrkpc) \/ wrkpc = "failed")
  /\ [](cver = wver => ~hsFail)
  /\ [](Dispatched => cver = wver)
  /\ (ctlpc = "connect" /\ cver # wver) ~> (ctlpc = "failed" /\ wrkpc = "failed")
  /\ (ctlpc = "connect" /\ cver = wver) ~> (ctlpc = "ready" /\ wrkpc = "loop_read")

\* versions 0 and 1 met, the worker refused and both sides ended failed
C15_Witness ==
  /\ cver = 0 /\ wver = 1
  /\ hsFail
  /\ ctlpc = "failed" /\ wrkpc = "failed"

\* versions 0 and 0 met and the worker dispatched a command
C15_WitnessEqual ==
  /\ cver = 0 /\ wver = 0
  /\ wlast.tag # "none"

\* ------------------------------------------------------------------ C16
\* C16: every request frame the control side has put on the pipe is at most
\* MAX_COMMAND (0x4000) bytes and every response frame the worker has put on
\* the pipe is at most MAX_RESPONSE (0x4000) bytes.
C16_FrameLimits ==
  /\ \A i \in DOMAIN c2w : FrameLen(c2w[i].frame) <= MAX_COMMAND
  /\ \A i \in DOMAIN w2c : FrameLen(w2c[i].frame) <= MAX_RESPONSE
  /\ MAX_COMMAND = 4 * 4096 /\ MAX_RESPONSE = 4 * 4096

\* a request of 0x4001 bytes was refused before the write
C16_Witness ==
  /\ ctlpc = "panicked"
  /\ FrameLen(serialize_Command(ccmd)) = MAX_COMMAND + 1
  /\ c2w = <<>>

\* a request of 0x3fff bytes is on the pipe
C16_WitnessLargest ==
  \E i \in DOMAIN c2w : FrameLen(c2w[i].frame) = MAX_COMMAND - 1

\* ------------------------------------------------------------------ C17
\* requests written and not yet answered to the control side
Outstanding ==
  Len(c2w) + Len(w2c) + (IF wrkpc \in {"dispatch", "write"} THEN 1 ELSE 0)

\* C17: on one connection requests and responses strictly alternate.  At
\* most one frame is under way; whenever the control side can send, nothing
\* is outstanding; the worker has written one response for every request it
\* read whenever it is about to read, and never more responses than
\* requests; and a response the control side received answers the request
\* it sent last.
C17_Alternate ==
  /\ Outstanding <= 1
  /\ ctlpc = "ready" => Outstanding = 0
  /\ nresp <= nread /\ nread <= nresp + 1 /\ nread <= nreq
  /\ wrkpc = "loop_read" => nread = nresp
  /\ \A i \in DOMAIN w2c : ctlpc = "read" => w2c[i].seq = nreq
  /\ cres.status = "ok" => cres.seq = cres.for

\* the second request of a connection got its response
C17_Witness ==
  /\ cres.status = "ok"
  /\ cres.for = 2
  /\ nresp = 2

\* ------------------------------------------------------------------ C18
\* C18 as stated: every decodable request the worker has read is either
\* being served, or answered, or could not be answered because the control
\* side closed the channel; a failing command never ends the loop.
C18_Stated ==
  /\ nread > nresp =>
       \/ wrkpc \in {"dispatch", "write"}
       \/ wrkpc = "failed" /\ ControlClosed
  /\ wrkpc \in {"failed", "panicked"} =>
       ControlClosed \/ nread = 0

\* ------------------------------------------------------------------ C19
\* what the claim allows a call to do with a job that is not the client's
Refused(l) ==
  /\ ~l.did
  /\ ~l.panicked
  /\ ~l.res.ok
  /\ l.res.variant \in {"NotFound", "GetJob", "Other"}

\* C19 as stated: an operation keyed by a job id, given an id the service
\* does not know or one whose job carries another name, fails (NotFound
\* when the lookup itself succeeded) and performs no operation on any job,
\* through the worker and in process alike.
C19_Stated ==
  /\ (wlast.tag \notin {"none", "StartJob"} /\ wlast.owner # "mine") =>
       Refused(wlast)
  /\ (ilast.tag \notin {"none", "StartJob"} /\ ilast.owner # "mine") =>
       Refused(ilast)

\* ------------------------------------------------------------------ C21
\* the operations a client is offered: InProcessClient::start_job ..
\* cancel_job
Catalog == {"start", "monitor", "suspend", "resume", "set-priority",
            "set-update-interval", "complete", "cancel"}

\* the operation a Command variant asks for
Operation(tag) ==
  CASE tag = "StartJob" -> "start"
    [] tag = "MonitorJob" -> "monitor"
    [] tag = "ResumeJob" -> "resume"
    [] tag = "SetJobPriority" -> "set-priority"
    [] tag = "SetUpdateInterval" -> "set-update-interval"
    [] tag = "CompleteJob" -> "complete"
    [] tag = "CancelJob" -> "cancel"

\* the arm of the worker's match that a Command variant is given to
Handler(tag) ==
  CASE tag = "StartJob" -> "run_start"
    [] tag = "MonitorJob" -> "run_monitor"
    [] tag = "ResumeJob" -> "run_resume"
    [] tag = "SetJobPriority" -> "run_set_priority"
    [] tag = "SetUpdateInterval" -> "run_set_update_interval"
    [] tag = "CompleteJob" -> "run_complete"
    [] tag = "CancelJob" -> "run_cancel"

\* a command the control side can write for the operation and the worker
\* decodes as that same command
Sendable(op) ==
  \E c \in Commands :
    /\ Operation(c.tag) = op
    /\ FrameLen(serialize_Command(c)) <= MAX_COMMAND
    /\ deserialize_Command(serialize_Command(c)) = c

\* C21 as stated: every operation of the catalog can be sent as a command,
\* none is undecodable, and the worker gives each a handler of its own;
\* whatever the worker has dispatched went to the handler of its command.
C21_Stated ==
  /\ \A op \in Catalog : Sendable(op)
  /\ \A i, j \in DOMAIN CommandTags :
       Handler(CommandTags[i]) = Handler(CommandTags[j]) => i = j
  /\ wlast.tag # "none" => Operation(wlast.tag) \in Catalog

\* what holds of the command set: every operation but suspend
C21_AllButSuspend ==
  \A op \in Catalog \ {"suspend"} : Sendable(op)

\* ------------------------------------------------------------------ C22
\* the call has returned
Returned == gcall.pc = "idle" /\ gout.val # "none"

\* C22: the shutdown flag only goes from false to true, and Shutdown is
\* terminal: a get_status that starts with the flag set never waits and
\* never fetches, and returns NotConnected, whatever notifications,
\* interval changes or stops arrive.
C22_ShutdownTerminal ==
  /\ [][imv.shutdown => imv'.shutdown]_vars
  /\ [](gcall.shutAtStart => gcall.pc = "loop" /\ ~gcall.waited)
  /\ []((gout.shutAtStart /\ gout.val # "none") =>
          /\ gout.val = "NotConnected"
          /\ ~gout.waited
          /\ gout.why = "none")

\* a call on a shut down monitor returned NotConnected although a
\* notification was pending
C22_Witness ==
  /\ Returned
  /\ gout.shutAtStart
  /\ gout.val = "NotConnected"
  /\ imv.notified

C23_WitnessNext ==
  /\ Returned
  /\ hist.calls = 2
  /\ gout.shutAtStart
  /\ gout.val = "NotConnected"
  /\ ~imv.notified

\* the pipe-based call after a timed-out one returned NotConnected
C23_WitnessPipe ==
  /\ pout.val = "NotConnected"
  /\ mslot = "None"

\* C24: with no notification and an interval shorter than the timeout, the
\* first get_status of a new monitor fetches without having waited, and every
\* later one returns a snapshot fetched at least one interval after the
\* snapshot before it, never Timeout.  The worker's monitor thread does the
\* same: its first status goes out before any recv, and one not caused by a
\* send goes out a whole delay after the one before.
C24_FirstThenSpaced ==
  /\ (hist.calls = 1 /\ gout.val # "none" /\ ~gout.shutAtStart
        /\ gout.stopAt = "none") =>
       /\ gout.why \in {"first", "notified"}
       /\ ~gout.waited
  /\ gout.why = "first" => hist.calls = 1 /\ ~gout.waited /\ gout.prev = 0
  /\ gout.why = "due" => hist.calls > 1 /\ gout.spaced
  /\ (gout.val = "Timeout") => (~gout.ivlt \/ gout.ivchg)
  /\ (hist.calls > 1 /\ gout.val = "Snapshot" /\ gout.why # "notified") =>
       gout.why = "due" /\ gout.spaced
  /\ (wmon.sent = 1 /\ wmon.pc = "recv") => ~wmon.recvd
  /\ (wmon.sent > 1 /\ wmon.pc = "recv" /\ wmon.by = "timer") => wmon.spaced

\* the second call waited one interval and returned a snapshot
C24_Witness ==
  /\ Returned
  /\ hist.calls = 2
  /\ gout.val = "Snapshot"
  /\ gout.why = "due"
  /\ gout.waited
  /\ gout.ivlt
  /\ ~gout.ivchg
  /\ gout.spaced

\* the first call returned a snapshot without waiting
C24_WitnessFirst ==
  /\ Returned
  /\ hist.calls = 1
  /\ gout.val = "Snapshot"
  /\ gout.why = "first"
  /\ ~gout.waited

\* the worker's thread sent its second status when the delay had passed
C24_WitnessWorker == wmon.sent = 2 /\ wmon.by = "timer" /\ wmon.spaced

\* C25: a notification that arrives while get_status waits wakes the call,
\* and a pass of the loop that finds notified set (the monitor not shut down,
\* the timeout not passed) fetches at once and clears the flag, whether the
\* call had waited or not; such a fetch may come before the interval boundary.
C25_NotifiedEarly ==
  /\ [][(gcall.pc = "wait" /\ ~imv.notified /\ imv'.notified) =>
          /\ gcall'.pc = "loop"
          /\ gcall'.woke = "notify"
          /\ clock' = clock]_vars
  /\ [][(gcall.pc = "loop" /\ gcall'.pc # "loop" /\ imv.notified
           /\ ~imv.shutdown /\ clock - gcall.started <= gcall.timeout) =>
          /\ gcall'.pc = "fetch"
          /\ gout'.why = "notified"
          /\ gout'.waited = gcall.waited
          /\ ~imv'.notified
          /\ last_status_time' = clock
          /\ clock' = clock]_vars
  /\ [](gout.why = "notified" =>
          gout.val \in {"fetching", "Snapshot", "NotConnected", "Error"})

\* a call that was waiting returned a snapshot before the interval boundary
C25_Witness ==
  /\ Returned
  /\ gout.val = "Snapshot"
  /\ gout.why = "notified"
  /\ gout.waited
  /\ gout.early

\* notified before the call: a snapshot before the boundary without any wait
C25_WitnessBefore ==
  /\ Returned
  /\ hist.calls = 2
  /\ gout.val = "Snapshot"
  /\ gout.why = "notified"
  /\ ~gout.waited
  /\ gout.early

C27_SpuriousRejected ==
  /\ [][(gcall.pc = "wait" /\ gcall'.pc # "wait") =>
          /\ gcall'.pc = "loop"
          /\ gout' = gout
          /\ hist'.outs = hist.outs
          /\ hist'.fetchErr = hist.fetchErr
          /\ last_status_time' = last_status_time]_vars
  /\ [][(gcall.pc = "loop" /\ gcall.woke # "none" /\ gcall'.pc # "loop"
           /\ ~imv.notified /\ ~imv.shutdown
           /\ clock <= wait_until_of(last_status_time, imv.interval_millis,
                                     gcall.started, gcall.timeout)) =>
          /\ gcall'.pc = "wait"
          /\ gout' = gout
          /\ hist' = hist
          /\ imv' = imv
          /\ last_status_time' = last_status_time]_vars

\* the call is waiting again after a spurious wakeup
C27_Witness ==
  /\ gcall.pc = "wait"
  /\ gcall.woke = "spurious"
  /\ gout.val = "none"
  /\ ~imv.notified
  /\ ~imv.shutdown

\* the call is waiting again after the interval was changed under it
C27_WitnessInterval ==
  /\ gcall.pc = "wait"
  /\ gcall.woke = "interval"
  /\ gcall.ivchg
  /\ gout.val = "none"
  /\ ~imv.notified
  /\ ~imv.shutdown

\* C28: a snapshot carries the job's url exactly when that url differs from
\* the url of the last snapshot that carried one; the first snapshot carries
\* it, one taken while the url is unchanged carries none, and the url carried
\* is the job's url at the fetch.
C28_UrlOnChange ==
  /\ gout.val = "Snapshot" =>
       /\ gout.cur \in JobUrls
       /\ gout.url \in {0, gout.cur}
       /\ (gout.url # 0) <=> (gout.cur # gout.prev)
       /\ gout.prev = 0 => gout.url = gout.cur
       /\ reportedUrl = gout.cur
  /\ last_url = reportedUrl

\* a second snapshot taken after a redirect carries the new url
C28_Witness ==
  /\ Returned
  /\ hist.calls = 2
  /\ gout.val = "Snapshot"
  /\ gout.prev # 0
  /\ gout.url # 0
  /\ gout.url # gout.prev

\* a second snapshot with the url unchanged carries none
C28_WitnessSame ==
  /\ Returned
  /\ hist.calls = 2
  /\ gout.val = "Snapshot"
  /\ gout.prev # 0
  /\ gout.url = 0

\* the monitoring of the job has ended: the monitor was stopped or shut down
\* after an error or a timeout, or it was dropped
MonitoringEnded == bmon = "dropped" \/ (bmon = "alive" /\ imv.shutdown)

\* C29 as stated: while the job is monitored its priority is foreground, and
\* once monitoring has ended, by a stop, by a shutdown after an error or a
\* timeout, or by the drop of the monitor, the priority is back to normal.
C29_Stated ==
  /\ (bmon = "alive" /\ ~imv.shutdown) => bjob.priority = "foreground"
  /\ MonitoringEnded => bjob.priority = "normal"

\* what the code does: the priority raised by start_job stays foreground
\* through every way the monitoring ends
C29_NeverRestored == bmon \in {"alive", "dropped"} => bjob.priority = "foreground"

\* C30: stop_update sets the shutdown flag and wakes the waiter without
\* touching the call's outcome; a call that was waiting then returns
\* NotConnected with no fetch and with no time passing between the wake and
\* the return; a call that was fetching stays in its fetch and returns what
\* the fetch gives, a snapshot unless the fetch itself fails, with the flag
\* left set for the next call.
C30_FlagAndWake ==
  /\ [][(gcall'.stopAt # gcall.stopAt /\ gcall'.pc # "idle") =>
          /\ imv'.shutdown
          /\ gcall.pc = "wait" => gcall'.pc = "loop" /\ gcall'.woke = "stop"
          /\ gcall.pc = "fetch" => gcall'.pc = "fetch"
          /\ gout' = gout
          /\ hist' = hist
          /\ clock' = clock]_vars
  /\ [][gcall.pc = "loop" => clock' = clock]_vars
  /\ []((Returned /\ gout.stopAt \in {"wait", "loop"}) =>
          /\ gout.val = "NotConnected"
          /\ gout.why = "none"
          /\ imv.shutdown)
  /\ []((Returned /\ gout.stopAt = "fetch") =>
          /\ gout.val \in {"Snapshot", "NotConnected", "Error"}
          /\ gout.why # "none"
          /\ imv.shutdown)
  /\ [](gcall.stopAt # "none" => imv.shutdown)

\* stopped during its fetch, the call returned the snapshot
C30_Witness ==
  /\ Returned
  /\ gout.stopAt = "fetch"
  /\ gout.val = "Snapshot"
  /\ imv.shutdown

\* stopped during its wait, the call returned NotConnected
C30_WitnessWait ==
  /\ Returned
  /\ gout.stopAt = "wait"
  /\ gout.waited
  /\ gout.val = "NotConnected"

\* C31: a fetch that fails at any of its steps (the job cannot be looked up,
\* its status cannot be read, the url of its file cannot be read) makes
\* get_status return an error and leaves the monitor shut down; no snapshot
\* is returned and the reported url is untouched; once a fetch has failed the
\* monitor stays shut down and every call begun afterwards returns
\* NotConnected.
C31_FetchErrorShutsDown ==
  /\ [][(gcall.pc = "fetch" /\ gcall'.pc = "idle" /\ gout'.fail # "none") =>
          /\ gout'.val \in {"NotConnected", "Error"}
          /\ imv'.shutdown
          /\ last_url' = last_url
          /\ hist'.fetchErr]_vars
  /\ [](gout.fail # "none" <=> (gout.val \in {"NotConnected", "Error"}
                                  /\ gout.why # "none"))
  /\ [](hist.fetchErr => imv.shutdown)
  /\ []((hist.fetchErr /\ gcall.pc # "idle") => gcall.shutAtStart)
  /\ []((hist.fetchErr /\ Returned /\ gout.fail = "none") =>
          gout.val = "NotConnected" /\ gout.shutAtStart)

\* the call after a failed fetch has returned NotConnected
C31_Witness ==
  /\ hist.fetchErr
  /\ hist.calls = 2
  /\ Returned
  /\ gout.shutAtStart
  /\ gout.val = "NotConnected"

\* the lookup of the job failed and the call returned that error
C31_WitnessJob == Returned /\ gout.fail = "job" /\ gout.val = "Error" /\ imv.shutdown

\* the url could not be read, after the status had been
C31_WitnessUrl == Returned /\ gout.fail = "url" /\ gout.val = "Error" /\ imv.shutdown

\* C32 as stated: when a read or write of the PipeServer has failed or timed
\* out on a connected server, leaving it disconnected, the pipe instance has
\* been disconnected from its client in the OS as well.
C32_Stated ==
  (/\ pc["server"] = "idle"
   /\ ret["server"].call \in {"read", "write"}
   /\ ret["server"].val \notin {"Ok", "NotConnected"}) =>
    /\ ~is_connected
    /\ inst = "disconnected"

\* what holds: an explicit disconnect of a connected server does disconnect
\* the instance, and a failed read or write leaves the server disconnected
C32_ExplicitOnly ==
  /\ [][(pc["server"] = "idle" /\ pc'["server"] = "idle" /\ is_connected
           /\ ovl'["server"] # "Some") => inst' = "disconnected"]_vars
  /\ []((pc["server"] = "idle" /\ ret["server"].call \in {"read", "write"}
           /\ ret["server"].val # "Ok") => ~is_connected)

\* references the service holds on the adapter
ServiceHeld == held["bits1"] + held["bits2"]

\* BackgroundCopyCallback::register has returned and no Release is under way
Registered == mem # "none" /\ tpc["registrant"] = "idle" /\ Quiescent

\* C33 as stated: once register has returned, with success or with failure,
\* the registrant holds no reference, the count of a live adapter is the
\* number of references the service holds, and an adapter the service holds
\* no reference to has been destroyed.
C33_Stated ==
  Registered =>
    /\ held["registrant"] = 0
    /\ mem = "alive" => rc = ServiceHeld
    /\ ServiceHeld = 0 => mem = "freed"

\* what holds: the same, for a register whose hand-off to the job succeeded
C33_AfterSuccess ==
  (Registered /\ acq > 1) =>
    /\ held["registrant"] = 0
    /\ mem = "alive" => rc = ServiceHeld
    /\ ServiceHeld = 0 => mem = "freed"

\* the leak: register has failed and the adapter is alive with a count of one
\* that nobody owns
C33_Leaked ==
  /\ Registered
  /\ acq = 1
  /\ mem = "alive"
  /\ rc = 1
  /\ \A h \in Holders : held[h] = 0

\* C34: no notification is lost.  While the monitor is not shut down, the
\* notified flag is set exactly when a notification has been delivered since
\* the last fetch began, whether it came during a wait, during a fetch or
\* between two calls; a call never sits in its wait with the flag set; the
\* pass of the loop that finds the flag set begins a fetch at once; and that
\* one fetch answers all the notifications delivered before it, leaving the
\* flag clear.
C34_NoLostNotification ==
  /\ [](~imv.shutdown => (imv.notified <=> hist.notes # "none"))
  /\ [](hist.notes # "none" => imv.notified)
  /\ [](gcall.pc = "wait" => ~imv.notified)
  /\ [][(gcall.pc = "loop" /\ gcall'.pc # "loop" /\ hist.notes # "none"
           /\ ~imv.shutdown /\ clock - gcall.started <= gcall.timeout) =>
          /\ gcall'.pc = "fetch"
          /\ gout'.why = "notified"
          /\ gout'.notes = hist.notes
          /\ hist'.notes = "none"
          /\ ~imv'.notified]_vars
  /\ [][(gcall.pc = "loop" /\ gcall'.pc = "fetch") => ~imv'.notified]_vars
  /\ [](gout.why = "notified" <=> gout.notes # "none")

\* notified during the fetch of the first call, the second call has fetched
\* without waiting
C34_Witness ==
  /\ Returned
  /\ hist.calls = 2
  /\ gout.val = "Snapshot"
  /\ gout.why = "notified"
  /\ ~gout.waited
  /\ gout.early
  /\ hist.notes = "none"

\* several notifications, one fetch: the flag is clear after it
C34_WitnessMany ==
  /\ Returned
  /\ gout.val = "Snapshot"
  /\ gout.notes = "many"
  /\ ~imv.notified
  /\ hist.notes = "none"

\* a notification has come while the call was fetching and is kept
C34_WitnessDuringFetch ==
  /\ gcall.pc = "fetch"
  /\ hist.notes = "one"
  /\ imv.notified

\* C35: the monitor's mutex is never held by get_status while it is blocked
\* in its wait or while it fetches; it is held only across steps that end by
\* themselves, so whoever holds it can always go on and release it, a free
\* mutex can be taken by every thread that stands at its lock(), and a
\* blocked wait can always end: no state is a deadlock.
C35_LockNotHeld ==
  /\ mlk = "monitor" => (~waiting /\ gpc = "idle")
  /\ (waiting \/ gpc \in {"fetch", "failed"}) =>
       mlk \in {"free"} \cup HandlerThreads
  /\ mlk = "monitor" => ENABLED (\E pass \in Passes : GetStatusCheck(pass))
  /\ \A t \in HandlerThreads :
       /\ mlk = t => (hpc[t] = "locked" /\ ENABLED HandlerFinish(t))
       /\ (hpc[t] = "upgraded" /\ mlk = "free") => ENABLED HandlerLock(t)
  /\ (cpc = "sender" /\ mlk = "free") =>
       (ENABLED ClientStop /\ ENABLED ClientSetInterval)
  /\ (gpc = "failed" /\ mlk = "free") => ENABLED GetStatusShut
  /\ gpc = "fetch" => ENABLED (\E ok \in BOOLEAN : GetStatusFetch(ok))
  /\ waiting => ENABLED GetStatusTimeout

\* a handler holds the mutex while get_status is fetching
C35_Witness ==
  /\ gpc = "fetch"
  /\ \E t \in HandlerThreads : mlk = t /\ hpc[t] = "locked"
  /\ cpc = "sender"

\* the client is at its lock() while get_status is blocked in the wait and
\* the mutex is free
C35_WitnessWait == waiting /\ cpc = "sender" /\ mlk = "free"

\* C36: set_update_interval changes nothing but the interval: notified,
\* shutdown, the last snapshot time and the outcome stay, and a waiting call
\* is woken.  The pass of the loop after that wake computes its wake time
\* from the new interval and the same last snapshot time: it fetches if that
\* time has passed and waits until it otherwise, so a call whose interval was
\* changed never fetches unnotified before one new interval after the last
\* snapshot.
C36_IntervalChange ==
  /\ [][(bmon = "alive" /\ imv'.interval_millis # imv.interval_millis) =>
          /\ imv'.notified = imv.notified
          /\ imv'.shutdown = imv.shutdown
          /\ last_status_time' = last_status_time
          /\ gout' = gout
          /\ hist' = hist
          /\ gcall.pc = "wait" =>
               /\ gcall'.pc = "loop"
               /\ gcall'.woke = "interval"
               /\ gcall'.ivchg]_vars
  /\ [][(gcall.pc = "loop" /\ gcall.woke = "interval" /\ gcall'.pc # "loop"
           /\ ~imv.notified /\ ~imv.shutdown
           /\ clock - gcall.started <= gcall.timeout) =>
          LET wake == Min(last_status_time + imv.interval_millis,
                          gcall.started + gcall.timeout)
          IN IF wake < clock
             THEN gcall'.pc = "fetch" /\ gout'.why = "due"
             ELSE /\ gcall'.pc = "wait"
                  /\ gcall'.wait_until = wake
                  /\ gout' = gout
                  /\ last_status_time' = last_status_time]_vars
  /\ []((gout.ivchg /\ gout.why = "due") => gout.spaced)

\* the interval was shortened under a waiting call, which then returned a
\* snapshot that was due by the new interval
C36_Witness ==
  /\ Returned
  /\ gout.ivchg
  /\ gout.waited
  /\ gout.val = "Snapshot"
  /\ gout.why = "due"
  /\ gout.spaced
  /\ imv.interval_millis = 1
  /\ ~imv.shutdown

\* woken by the change, the call found its new wake time not reached and is
\* waiting for it
C36_WitnessRewait ==
  /\ gcall.pc = "wait"
  /\ gcall.woke = "interval"
  /\ gcall.wait_until = last_status_time + imv.interval_millis
  /\ clock < gcall.wait_until

\* a monitor that exists and has not been shut down
Live(m) == imon[m].state = "alive" /\ ~imon[m].shutdown

\* C37: a job id has at most one live monitor, and it is the one the
\* registry names; after a monitor_job that succeeded the registry names the
\* monitor it built, which is live, and the monitor named before, if it still
\* exists, is shut down; a monitor_job that failed changed neither the
\* registry nor any monitor.
C37_OneLiveMonitor ==
  /\ [](\A g \in RegGuids :
          Cardinality({m \in MonitorIds : imon[m].guid = g /\ Live(m)}) <= 1)
  /\ [](\A m \in MonitorIds : Live(m) => monitors[imon[m].guid] = m)
  /\ []((rlast.op = "monitor" /\ rlast.ok) =>
          /\ monitors[rlast.guid] = rlast.built
          /\ Live(rlast.built)
          /\ rlast.built # rlast.prev
          /\ (rlast.prev # 0 /\ imon[rlast.prev].state = "alive") =>
               imon[rlast.prev].shutdown)
  /\ [][(rlast'.op = "monitor" /\ ~rlast'.ok) =>
          (monitors' = monitors /\ imon' = imon)]_vars

\* a second monitor_job for a job whose first monitor is still held: the
\* first is shut down and the registry names the second
C37_Witness ==
  /\ rlast.op = "monitor"
  /\ rlast.ok
  /\ rlast.prev # 0
  /\ imon[rlast.prev].state = "alive"
  /\ imon[rlast.prev].shutdown
  /\ monitors[rlast.guid] = rlast.built

\* a monitor_job that failed for a job with a live monitor
C37_WitnessFailed ==
  /\ rlast.op = "monitor"
  /\ ~rlast.ok
  /\ rlast.prev # 0
  /\ Live(rlast.prev)
  /\ monitors[rlast.guid] = rlast.prev

\* C38: a complete_job or cancel_job that succeeded shut down the monitor the
\* registry named for the job, so the job has no live monitor left, and
\* touched no monitor of another job; one that failed, the job not being
\* found or the service refusing, changed no monitor and no registry entry.
C38_StopOnSuccess ==
  /\ [][(rlast'.op \in {"complete", "cancel"} /\ rlast'.ok) =>
          /\ \A m \in MonitorIds :
               /\ (monitors[rlast'.guid] = m /\ imon[m].state = "alive") =>
                    imon'[m].shutdown
               /\ imon[m].guid # rlast'.guid => imon'[m] = imon[m]
          /\ \A g \in RegGuids : g # rlast'.guid => monitors'[g] = monitors[g]]_vars
  /\ [][(rlast'.op \in {"complete", "cancel"} /\ ~rlast'.ok) =>
          (monitors' = monitors /\ imon' = imon /\ sjobs' = sjobs)]_vars
  /\ []((rlast.op \in {"complete", "cancel"} /\ rlast.ok) =>
          \A m \in MonitorIds : imon[m].guid = rlast.guid => ~Live(m))

\* complete_job succeeded for a job with a monitor, which is now shut down
C38_Witness ==
  /\ rlast.op = "complete"
  /\ rlast.ok
  /\ rlast.prev # 0
  /\ imon[rlast.prev].state = "alive"
  /\ imon[rlast.prev].shutdown

\* cancel_job failed for a job with a live monitor, which is still live
C38_WitnessFailed ==
  /\ rlast.op = "cancel"
  /\ ~rlast.ok
  /\ rlast.prev # 0
  /\ Live(rlast.prev)

\* ------------------------------------------------------------------ C39
\* a side is blocked in a read: it is at a read and nothing is on its pipe
ControlReads == ctlpc \in {"hs_read", "read"} /\ w2c = <<>>
WorkerReads == wrkpc \in {"hs_read", "loop_read"} /\ c2w = <<>>
\* a side is at a write of the handshake or of a response
ControlWrites == ctlpc = "hs_write"
WorkerWrites == wrkpc \in {"hs_write", "write"}
\* the steps the worker and the control side take on the control pipe
WorkerStep ==
  WorkerHsRead \/ WorkerHsWrite \/ WorkerRead \/ WorkerDispatch \/ WorkerWrite
ControlStep ==
  ControlConnected \/ ControlHsWrite \/ ControlHsRead \/ ControlRead
    \/ ControlDrop \/ \E c \in Commands : RunCommand(c)

\* C39: the handshake and every command exchange are free of deadlock.  The
\* two sides are never both blocked in a read and never both at a write.
\* The control side reads the version reply only after its own byte is
\* written, the worker writes its byte only after it read the control
\* side's, and the worker writes a response only after it read the request,
\* while the control side is reading.  Whenever one side is blocked in a
\* read the other side, if it is still there, has a step to take; if the
\* other side has failed and closed the pipe, the blocked read returns, and
\* it returns nothing but an error.
C39_NoDeadlock ==
  /\ ~(ControlReads /\ WorkerReads)
  /\ ~(ControlWrites /\ WorkerWrites)
  /\ ctlpc = "hs_read" =>
       (Len(c2w) = 1 /\ wrkpc = "hs_read") \/ (c2w = <<>> /\ wrkpc # "hs_read")
  /\ wrkpc = "hs_write" => (c2w = <<>> /\ w2c = <<>> /\ ctlpc # "hs_write")
  /\ wrkpc \in {"dispatch", "write"} =>
       (c2w = <<>> /\ w2c = <<>> /\ (ctlpc = "read" \/ ControlClosed))
  /\ (ControlReads /\ ~WorkerClosed) => ENABLED WorkerStep
  /\ (WorkerReads /\ ~ControlClosed) => ENABLED ControlStep
  /\ (ControlReads /\ WorkerClosed) =>
       /\ ctlpc = "hs_read" =>
            /\ ENABLED (ControlHsRead /\ ctlpc' = "failed")
            /\ ~ENABLED (ControlHsRead /\ ctlpc' # "failed")
       /\ ctlpc = "read" =>
            /\ ENABLED (ControlRead /\ cres'.status = "err")
            /\ ~ENABLED (ControlRead /\ cres'.status # "err")
  /\ (WorkerReads /\ ControlClosed) =>
       /\ wrkpc = "hs_read" =>
            /\ ENABLED (WorkerHsRead /\ wrkpc' = "failed")
            /\ ~ENABLED (WorkerHsRead /\ wrkpc' # "failed")
       /\ wrkpc = "loop_read" =>
            /\ ENABLED (WorkerRead /\ wrkpc' = "failed")
            /\ ~ENABLED (WorkerRead /\ wrkpc' # "failed")

\* the control side is blocked reading the version reply of a worker that
\* refused the version and closed the pipe
C39_Witness ==
  /\ ctlpc = "hs_read" /\ w2c = <<>>
  /\ wrkpc = "failed" /\ hsFail

\* the control side is blocked reading a response from a worker that is gone
C39_WitnessCommand ==
  /\ ctlpc = "read" /\ w2c = <<>>
  /\ WorkerClosed

\* the worker is blocked reading a request and the client has been dropped
C39_WitnessWorker ==
  /\ wrkpc = "loop_read" /\ c2w = <<>>
  /\ ctlpc = "closed"

\* the read of a side whose peer had closed has returned an error
C39_WitnessReturned ==
  /\ ctlpc = "ready" /\ cres.status = "err" /\ cres.for > 0
  /\ WorkerClosed

\* ------------------------------------------------------------------ C40
\* the monitor pipe of call r is there for a client to open or to use
PipeHeld(r) == mpipe[r] \in {"listening", "opened", "hungup", "connected"}

\* the ordering on the control side: the pipe is created before the command
\* is sent and stays while the reply is awaited, it is connected only after
\* a success reply, and after a failure reply it is dropped unconnected and
\* the caller gets the failure, no monitor client
ControlOrder ==
  /\ mreq # "none" => PipeHeld(mround)
  /\ tctl \in {"created", "sent", "connect"} => PipeHeld(mround)
  /\ \A r \in Rounds :
       /\ mpipe[r] = "connected" => (mgot[r] = "ok" /\ mret[r] = "client")
       /\ mret[r] = "client" => mgot[r] = "ok"
       /\ mgot[r] = "failure" => (mpipe[r] = "closed" /\ mret[r] = "failure")

\* C40 as stated: with the ordering of the control side, the monitor thread
\* of the worker always finds the pipe existing when it opens it; after a
\* failure reply the pipe is never connected and no monitor client is
\* returned.
C40_Stated ==
  /\ ControlOrder
  /\ \A r \in Rounds : mthr[r] # "nopipe"

\* the ordering of the control side by itself holds
C40_ControlOrder == ControlOrder

\* a monitor thread finds no pipe only where the worker had answered with a
\* failure after it had spawned the thread
C40_OnlyAfterFailure ==
  \A r \in Rounds : mthr[r] = "nopipe" => mgot[r] = "failure"

\* the thread opened the pipe before the control side had read the reply
C40_OpenedEarly ==
  /\ tctl = "sent"
  /\ mthr[mround] = "opened"
  /\ mpipe[mround] = "opened"

\* a monitor client was returned for the second call
C40_Returned ==
  /\ mret[2] = "client"
  /\ mpipe[2] = "connected"
  /\ mthr[2] = "sending"

\* a failure reply was received and the thread spawned before it found no pipe
C40_Missed ==
  \E r \in Rounds : mthr[r] = "nopipe" /\ mgot[r] = "failure"

====
